---------------------------- MODULE Spec2Model ----------------------------
(***************************************************************************)
(* Model of jaoswald/DiskCopy: the Disk Copy 4.2 header codec, the         *)
(* rotating checksum, the HFS master directory block, the big-endian       *)
(* codec and the create, extract and verify commands of the program.       *)
(*                                                                         *)
(* Eight specifications share the variables: SpecSum (a DiskCopyChecksum   *)
(* object and the stream it reads), SpecHeader (a DiskCopyHeader decoded   *)
(* from 84 bytes or created for an HFS volume), SpecCmd (a container       *)
(* file, the verify command and the calls it is made of), SpecRead (the    *)
(* header read from any stream position, and the extract command on the    *)
(* same container file), SpecHFS (a master directory block decoded from    *)
(* 512 bytes), SpecEndian (the four                                        *)
(* big-endian functions), SpecMain (one run of main on a file system of    *)
(* three paths) and SpecEndToEnd (create, verify and extract run one       *)
(* after the other on a raw volume image).                                 *)
(*                                                                         *)
(* Number representation.  TLC's integers are 32-bit signed, so a uint32_t *)
(* is kept as two 16-bit halves [hi, lo] and a size_t as four 16-bit limbs *)
(* <<l0, l1, l2, l3>> (least significant first).  All arithmetic on them   *)
(* wraps at the C++ width.  A char is kept as its bit pattern 0..255.      *)
(***************************************************************************)
EXTENDS Integers, Sequences, FiniteSets, TLC

VARIABLES
  charSigned,  \* build property: is plain char a signed type
  sum_,        \* DiskCopyChecksum::sum_
  header,      \* the DiskCopyHeader (or master directory block) at hand
  disk,        \* the container file on disk: a byte sequence, or NoFile;
               \* in SpecMain and SpecEndToEnd the files at the three paths
  input,       \* std::ifstream: [bytes, pos, fail]
  output,      \* std::ofstream: the bytes written so far
  args,        \* the inputs drawn for the call or the run
  result,      \* the last call: its name, its arguments and what it returned
  calls        \* number of calls made so far

vars == <<charSigned, sum_, header, disk, input, output, args, result, calls>>

---------------------------------------------------------------------------
(* Integer widths *)

Half == 256 * 256

U32(h, l) == [hi |-> h, lo |-> l]

\* a small natural number (< 2^31) as a uint32_t
ToU32(n) == U32((n \div Half) % Half, n % Half)

IsZero32(a) == a.hi = 0 /\ a.lo = 0

\* uint32_t + uint32_t
Add32(a, b) ==
  LET l == a.lo + b.lo
      h == a.hi + b.hi + (l \div Half)
  IN  U32(h % Half, l % Half)

\* uint32_t - k for a small k with k <= a
SubSmall32(a, k) ==
  LET kh == k \div Half
      kl == k % Half
      borrow == IF a.lo < kl THEN 1 ELSE 0
  IN  U32((a.hi - kh - borrow + Half) % Half, (a.lo - kl + Half) % Half)

\* std::min(a, k) for a uint32_t a and a small k: the result is small
MinSmall32(a, k) ==
  IF a.hi > k \div Half \/ (a.hi = k \div Half /\ a.lo > k % Half)
  THEN k
  ELSE a.hi * Half + a.lo

\* a % m for a uint32_t a and a small m
Mod32(a, m) == (((a.hi % m) * (Half % m)) + (a.lo % m)) % m

\* a * k (uint32_t arithmetic) for a small k <= 2^15
Mul32Small(a, k) ==
  LET l == a.lo * k
      h == a.hi * k + (l \div Half)
  IN  U32(h % Half, l % Half)

\* a / k (uint32_t arithmetic) for a small k <= 2^15
Div32Small(a, k) == U32(a.hi \div k, ((a.hi % k) * Half + a.lo) \div k)

\* a * n (uint32_t arithmetic, the product wraps at 2^32) for a 16-bit n
Mul32(a, n) ==
  LET n0 == n % 256
      n1 == n \div 256
      p0 == a.lo * n0
      p1 == a.lo * n1
      ph == (a.hi * n0 + ((a.hi * n1) % 256) * 256) % Half
      low == Add32(ToU32(p0), U32((p1 \div 256) % Half, (p1 % 256) * 256))
  IN  Add32(low, U32(ph, 0))

\* uint64_t values, four 16-bit limbs, least significant first: the
\* conversion of a uint32_t, and the sum of two values
U64(a) == << a.lo, a.hi, 0, 0 >>

Add64(x, y) ==
  LET s1 == x[1] + y[1]
      s2 == x[2] + y[2] + (s1 \div Half)
      s3 == x[3] + y[3] + (s2 \div Half)
      s4 == x[4] + y[4] + (s3 \div Half)
  IN  << s1 % Half, s2 % Half, s3 % Half, s4 % Half >>

\* x * k in uint64_t arithmetic, for 0 < k <= 32768: wraps at 2^64
Mul64Small(x, k) ==
  LET p0 == x[1] * k
      p1 == x[2] * k + p0 \div Half
      p2 == x[3] * k + p1 \div Half
      p3 == x[4] * k + p2 \div Half
  IN  << p0 % Half, p1 % Half, p2 % Half, p3 % Half >>

\* the conversion of a uint64_t to uint32_t: the low 32 bits
Trunc32(x) == U32(x[2], x[1])

\* b < x for a uint32_t b below 2^31 and a uint64_t x
LessSmall64(b, x) ==
  x[4] > 0 \/ x[3] > 0 \/ x[2] > b \div Half
    \/ (x[2] = b \div Half /\ x[1] > b % Half)

\* a >> 1 on a uint32_t (logical shift)
Shr1(a) == U32(a.hi \div 2, (a.lo \div 2) + (a.hi % 2) * (Half \div 2))

\* a & 0x1
And1(a) == a.lo % 2

\* a & 0x7fffffff: bit 31 cleared
And7fffffff(a) == U32(a.hi % (Half \div 2), a.lo)

\* 0x80000000 | a: bit 31 set
Or80000000(a) == U32((a.hi % (Half \div 2)) + (Half \div 2), a.lo)

\* size_t values, four 16-bit limbs, least significant first
SizeT(n) == << n % Half, n \div Half, 0, 0 >>

\* conversion of a char to size_t: sign extension where char is signed
CharToSizeT(c, signed) ==
  IF signed /\ c >= 128
  THEN << Half - 256 + c, Half - 1, Half - 1, Half - 1 >>
  ELSE SizeT(c)

\* conversion of a size_t to char: the low 8 bits
SizeTToChar(z) == z[1] % 256

\* z > k for a size_t z and a small k
SizeTGreater(z, k) == z[4] > 0 \/ z[3] > 0 \/ z[2] > 0 \/ z[1] > k

---------------------------------------------------------------------------
(* endian.h *)

\* BigEndian2(b + off): c[0] << 8 | c[1]
BigEndian2(b, off) == b[off + 1] * 256 + b[off + 2]

\* BigEndian4(b + off): c[0] << 24 | c[1] << 16 | c[2] << 8 | c[3].  The
\* bytes are promoted to int; a set bit 7 of c[0] lands in the sign bit, and
\* the conversion of the result to uint32_t gives the same 32 bits.
BigEndian4(b, off) ==
  U32(b[off + 1] * 256 + b[off + 2], b[off + 3] * 256 + b[off + 4])

\* A WriteBigEndian2 that stores the least significant byte first.
WriteBigEndian2Swapped(value) == << value % 256, (value \div 256) % 256 >>

\* WriteBigEndian2(value, bytes): the two chars stored
WriteBigEndian2(value) == << (value \div 256) % 256, value % 256 >>

\* WriteBigEndian4(value, bytes): the four chars stored
WriteBigEndian4(value) ==
  << (value.hi \div 256) % 256, value.hi % 256,
     (value.lo \div 256) % 256, value.lo % 256 >>

---------------------------------------------------------------------------
(* absl::Status *)

OkStatus == [code |-> "Ok", what |-> "ok"]
InvalidArgumentError(w) == [code |-> "InvalidArgument", what |-> w]
OutOfRangeError(w) == [code |-> "OutOfRange", what |-> w]
NotFoundError(w) == [code |-> "NotFound", what |-> w]
ResourceExhaustedError(w) == [code |-> "ResourceExhausted", what |-> w]
FailedPreconditionError(w) == [code |-> "FailedPrecondition", what |-> w]

IsOk(st) == st.code = "Ok"

---------------------------------------------------------------------------
(* DiskCopyChecksum *)

\* A rotate that loses the wrapped bit: 0x80000000 is never set.
UpdateSumShiftOnly(sum, new_word) ==
  And7fffffff(Shr1(Add32(sum, ToU32(new_word))))

\* DiskCopyChecksum::UpdateSum: the new value of sum_, which is also returned
UpdateSum(sum, new_word) ==
  LET s == Add32(sum, ToU32(new_word))
  IN  IF And1(s) # 0
      THEN Or80000000(And7fffffff(Shr1(s)))
      ELSE And7fffffff(Shr1(s))

\* DiskCopyChecksum::Sum
Sum(sum) == sum

\* CheckEven: the code tests byte_count % 1
CheckEven(byte_count) ==
  IF Mod32(byte_count, 1) # 0
  THEN InvalidArgumentError("odd_byte_count")
  ELSE OkStatus

\* The for loop of UpdateSumFromBlock:
\* sum_ after `count` iterations, the first of them at c = 2 * first.  The
\* iterations run in order; the range is split in halves only to keep the
\* depth of evaluation logarithmic, and the loop is a function so that TLC
\* evaluates every iteration in a context of the same size.
SumLoop(sum, buffer, first, count) ==
  LET loop[a \in [hi : 0..65535, lo : 0..65535] \X Nat \X Nat] ==
        IF a[3] = 0 THEN a[1]
        ELSE IF a[3] = 1 THEN UpdateSum(a[1], BigEndian2(buffer, 2 * a[2]))
        ELSE LET h == a[3] \div 2
             IN  loop[<< loop[<< a[1], a[2], h >>], a[2] + h, a[3] - h >>]
  IN  loop[<< sum, first, count >>]

\* DiskCopyChecksum::UpdateSumFromBlock(buffer, byte_count).  `buffer` is
\* the memory starting at the pointer; the loop runs for c = 0, 2, ... while
\* c < byte_count, reading buffer[c] and buffer[c + 1].
UpdateSumFromBlock(sum, buffer, byte_count) ==
  LET byte_count_status == CheckEven(ToU32(byte_count))
  IN  IF ~IsOk(byte_count_status)
      THEN [status |-> byte_count_status, sum |-> sum]
      ELSE [status |-> OkStatus,
            sum |-> SumLoop(sum, buffer, 0, (byte_count + 1) \div 2)]

---------------------------------------------------------------------------
(* std::ifstream, std::ofstream *)

NoFile == << -1 >>

\* std::ifstream f(path, std::ios::binary) on an existing file
OpenStream(bytes) == [bytes |-> bytes, pos |-> 0, fail |-> FALSE]

\* the same on a file that does not exist: !f.good()
FailedStream == [bytes |-> << >>, pos |-> 0, fail |-> TRUE]

\* s.seekg(p): does nothing on a stream whose failbit is set; a file stream
\* can be positioned past its end
Seekg(s, p) == IF s.fail THEN s ELSE [s EXCEPT !.pos = p]

\* s.read(buf, n): all n chars, or failure (failbit and eofbit set, the
\* position at the end of the file)
Read(s, n) ==
  IF s.fail THEN [s |-> s, ok |-> FALSE, data |-> << >>]
  ELSE IF s.pos + n <= Len(s.bytes)
  THEN [s |-> [s EXCEPT !.pos = s.pos + n], ok |-> TRUE,
        data |-> SubSeq(s.bytes, s.pos + 1, s.pos + n)]
  ELSE [s |-> [s EXCEPT !.pos = IF s.pos > Len(s.bytes) THEN s.pos
                                ELSE Len(s.bytes),
                        !.fail = TRUE],
        ok |-> FALSE, data |-> << >>]

kChunkSize == 1024

\* char buf[kChunkSize] after a successful read of `data` into it
FillBuf(buf, data) == data \o SubSeq(buf, Len(data) + 1, Len(buf))

\* A loop that always reads a whole chunk, whatever remains to be read.
RECURSIVE FileLoopWholeChunks(_, _, _, _)
FileLoopWholeChunks(sum, s, buf, remaining_bytes_to_read) ==
  IF IsZero32(remaining_bytes_to_read)
  THEN [status |-> OkStatus, sum |-> sum, s |-> s]
  ELSE LET chunk_size == MinSmall32(remaining_bytes_to_read, kChunkSize)
           rd == Read(s, kChunkSize)
       IN  IF ~rd.ok
           THEN [status |-> OutOfRangeError("read_failed"), sum |-> sum,
                 s |-> rd.s]
           ELSE LET nbuf == FillBuf(buf, rd.data)
                    blk == UpdateSumFromBlock(sum, nbuf, kChunkSize)
                IN  FileLoopWholeChunks(blk.sum, rd.s, nbuf,
                                        SubSmall32(remaining_bytes_to_read,
                                                   chunk_size))

\* One pass of the while loop of UpdateSumFromFile over the loop's
\* variables; `done` says that the loop has been left (by its condition or
\* by a return), and a pass after that changes nothing.
FileLoopBody(v) ==
  IF v.done THEN v
  ELSE IF IsZero32(v.remaining_bytes_to_read)
  THEN [v EXCEPT !.done = TRUE]
  ELSE LET chunk_size == MinSmall32(v.remaining_bytes_to_read, kChunkSize)
           rd == Read(v.s, chunk_size)
       IN  IF ~rd.ok
           THEN [v EXCEPT !.status = OutOfRangeError("read_failed"),
                          !.s = rd.s, !.done = TRUE]
           ELSE LET nbuf == FillBuf(v.buf, rd.data)
                    blk == UpdateSumFromBlock(v.sum, nbuf, chunk_size)
                IN  IF ~IsOk(blk.status)
                    THEN [v EXCEPT !.status = blk.status, !.sum = blk.sum,
                                   !.s = rd.s, !.buf = nbuf, !.done = TRUE]
                    ELSE [v EXCEPT !.sum = blk.sum, !.s = rd.s, !.buf = nbuf,
                                   !.remaining_bytes_to_read =
                                     SubSmall32(v.remaining_bytes_to_read,
                                                chunk_size)]

\* `n` passes of the loop, one after the other.  The passes run in order;
\* the range is split in halves only to keep the depth of evaluation
\* logarithmic.
RECURSIVE FileLoopPasses(_, _)
FileLoopPasses(v, n) ==
  IF n = 0 THEN v
  ELSE IF n = 1 THEN FileLoopBody(v)
  ELSE LET h == n \div 2
           left == FileLoopPasses(v, h)
       IN  IF left.done THEN left ELSE FileLoopPasses(left, n - h)

\* The while loop of UpdateSumFromFile: it is left after at most one pass
\* per chunk and the pass that finds nothing remaining.
FileLoop(sum, s, buf, remaining_bytes_to_read) ==
  LET passes == remaining_bytes_to_read.hi * (Half \div kChunkSize)
                + (remaining_bytes_to_read.lo + kChunkSize - 1) \div kChunkSize
                + 1
      v == FileLoopPasses([status |-> OkStatus, sum |-> sum, s |-> s,
                           buf |-> buf,
                           remaining_bytes_to_read |-> remaining_bytes_to_read,
                           done |-> FALSE], passes)
  IN  [status |-> v.status, sum |-> v.sum, s |-> v.s]

\* DiskCopyChecksum::UpdateSumFromFile(s, byte_count).  The local buf is not
\* initialised; `stale` is the value of the one char of it that can be read
\* before it is written (the char after an odd-sized first chunk).
UpdateSumFromFile(sum, s, byte_count, stale) ==
  LET byte_count_status == CheckEven(byte_count)
  IN  IF ~IsOk(byte_count_status)
      THEN [status |-> byte_count_status, sum |-> sum, s |-> s]
      ELSE FileLoop(sum, s, [i \in 1..kChunkSize |-> stale], byte_count)

---------------------------------------------------------------------------
(* DiskCopyHeader *)

kHeaderLength == 84
kMaxNameLength == 63
kPrivate == 256

NoHeader == [none |-> TRUE]

\* A decoder that clamps the name length to kMaxNameLength.
DiskCopyHeaderBytesClamped(header_bytes, signed) ==
  [ name_length_ |-> SizeT(IF header_bytes[1] > kMaxNameLength
                           THEN kMaxNameLength ELSE header_bytes[1]),
    name_bytes_ |-> SubSeq(header_bytes, 2, 1 + kMaxNameLength),
    data_size_ |-> BigEndian4(header_bytes, 64),
    tag_size_ |-> BigEndian4(header_bytes, 68),
    header_data_checksum_ |-> BigEndian4(header_bytes, 72),
    header_tag_checksum_ |-> BigEndian4(header_bytes, 76),
    disk_format_ |-> header_bytes[81],
    format_byte_ |-> header_bytes[82],
    private_ |-> BigEndian2(header_bytes, 82) ]

\* DiskCopyHeader::DiskCopyHeader(const char header_bytes[kHeaderLength])
DiskCopyHeaderBytes(header_bytes, signed) ==
  [ name_length_ |-> CharToSizeT(header_bytes[1], signed),
    name_bytes_ |-> SubSeq(header_bytes, 2, 1 + kMaxNameLength),
    data_size_ |-> BigEndian4(header_bytes, 64),
    tag_size_ |-> BigEndian4(header_bytes, 68),
    header_data_checksum_ |-> BigEndian4(header_bytes, 72),
    header_tag_checksum_ |-> BigEndian4(header_bytes, 76),
    disk_format_ |-> header_bytes[81],
    format_byte_ |-> header_bytes[82],
    private_ |-> BigEndian2(header_bytes, 82) ]

\* strncpy(dst, src, n) into a zeroed dst of kMaxNameLength chars: the chars
\* of src up to its first NUL, then NULs
Strncpy(src, n) ==
  [ i \in 1..kMaxNameLength |->
      IF i <= n /\ \A j \in 1..i : src[j] # 0 THEN src[i] ELSE 0 ]

\* DiskCopyHeader::DiskCopyHeader(name, data_size, tag_size, ...)
DiskCopyHeaderFields(name, data_size, tag_size, header_data_checksum, header_tag_checksum, disk_format, format_byte) ==
  LET len == IF Len(name) < kMaxNameLength THEN Len(name) ELSE kMaxNameLength
  IN  [ name_length_ |-> SizeT(len),
        name_bytes_ |-> Strncpy(name, len),
        data_size_ |-> data_size,
        tag_size_ |-> tag_size,
        header_data_checksum_ |-> header_data_checksum,
        header_tag_checksum_ |-> header_tag_checksum,
        disk_format_ |-> disk_format,
        format_byte_ |-> format_byte,
        private_ |-> kPrivate ]

\* the char header_bytes[kHeaderLength] that WriteToDisk fills in
HeaderBytes(h) ==
  << SizeTToChar(h.name_length_) >> \o h.name_bytes_
    \o WriteBigEndian4(h.data_size_) \o WriteBigEndian4(h.tag_size_)
    \o WriteBigEndian4(h.header_data_checksum_)
    \o WriteBigEndian4(h.header_tag_checksum_)
    \o << h.disk_format_, h.format_byte_ >> \o WriteBigEndian2(h.private_)

\* DiskCopyHeader::WriteToDisk(s): `wok` says whether s.write succeeds
WriteToDisk(h, out, wok) ==
  IF ~wok
  THEN [status |-> ResourceExhaustedError("write_header"), out |-> out]
  ELSE [status |-> OkStatus, out |-> out \o HeaderBytes(h)]

\* A table with the 720k and 1440k rows exchanged.
CreateForHFSSwapped(name, data_block_count, data_checksum, tag_byte_count, tag_checksum) ==
  IF Len(name) > kMaxNameLength
  THEN [status |-> InvalidArgumentError("name_too_long"), h |-> NoHeader]
  ELSE IF data_block_count \notin
            {ToU32(800), ToU32(1600), ToU32(1440), ToU32(2880)}
  THEN [status |-> InvalidArgumentError("block_count_not_recognized"),
        h |-> NoHeader]
  ELSE [status |-> OkStatus,
        h |-> DiskCopyHeaderFields(
                name, Mul32Small(data_block_count, 512), tag_byte_count,
                data_checksum, tag_checksum,
                IF data_block_count = ToU32(800) THEN 0
                ELSE IF data_block_count = ToU32(1600) THEN 1
                ELSE IF data_block_count = ToU32(1440) THEN 3 ELSE 2,
                IF data_block_count = ToU32(800) THEN 18 ELSE 34)]

\* DiskCopyHeader::CreateForHFS
CreateForHFS(name, data_block_count, data_checksum, tag_byte_count, tag_checksum) ==
  IF Len(name) > kMaxNameLength
  THEN [status |-> InvalidArgumentError("name_too_long"), h |-> NoHeader]
  ELSE IF ToU32(800) = data_block_count
  THEN [status |-> OkStatus,
        h |-> DiskCopyHeaderFields(name, Mul32Small(data_block_count, 512),
                                   tag_byte_count, data_checksum,
                                   tag_checksum, 0, 18)]
  ELSE IF ToU32(1600) = data_block_count
  THEN [status |-> OkStatus,
        h |-> DiskCopyHeaderFields(name, Mul32Small(data_block_count, 512),
                                   tag_byte_count, data_checksum,
                                   tag_checksum, 1, 34)]
  ELSE IF ToU32(1440) = data_block_count
  THEN [status |-> OkStatus,
        h |-> DiskCopyHeaderFields(name, Mul32Small(data_block_count, 512),
                                   tag_byte_count, data_checksum,
                                   tag_checksum, 2, 34)]
  ELSE IF ToU32(2880) = data_block_count
  THEN [status |-> OkStatus,
        h |-> DiskCopyHeaderFields(name, Mul32Small(data_block_count, 512),
                                   tag_byte_count, data_checksum,
                                   tag_checksum, 3, 34)]
  ELSE [status |-> InvalidArgumentError("block_count_not_recognized"),
        h |-> NoHeader]

\* DiskFormatByte(dfb): the status of its result
DiskFormatByte(dfb) ==
  IF dfb \in {0, 1, 2, 3} THEN OkStatus
  ELSE InvalidArgumentError("unknown_disk_format_byte")

\* FormatByte(fb): the status of its result
FormatByte(fb) ==
  IF fb \in {2, 18, 34, 36} THEN OkStatus
  ELSE InvalidArgumentError("unknown_format_byte")

\* DiskCopyHeader::TotalFileSize: data_size_ + tag_size_ is uint32_t
\* arithmetic, the sum with the size_t kHeaderLength is converted to the
\* uint32_t that is returned
TotalFileSize(h) ==
  Add32(Add32(h.data_size_, h.tag_size_), ToU32(kHeaderLength))

\* A Validate that tests the magic number before the two format bytes.
ValidateMagicFirst(h) ==
  IF SizeTGreater(h.name_length_, kMaxNameLength)
  THEN [status |-> InvalidArgumentError("invalid_name_length"),
        value |-> ToU32(0)]
  ELSE IF h.private_ # kPrivate
  THEN [status |-> InvalidArgumentError("invalid_magic_number"),
        value |-> ToU32(0)]
  ELSE IF ~IsOk(DiskFormatByte(h.disk_format_))
  THEN [status |-> DiskFormatByte(h.disk_format_), value |-> ToU32(0)]
  ELSE IF ~IsOk(FormatByte(h.format_byte_))
  THEN [status |-> FormatByte(h.format_byte_), value |-> ToU32(0)]
  ELSE [status |-> OkStatus, value |-> TotalFileSize(h)]

\* DiskCopyHeader::Validate
Validate(h) ==
  IF SizeTGreater(h.name_length_, kMaxNameLength)
  THEN [status |-> InvalidArgumentError("invalid_name_length"),
        value |-> ToU32(0)]
  ELSE IF ~IsOk(DiskFormatByte(h.disk_format_))
  THEN [status |-> DiskFormatByte(h.disk_format_), value |-> ToU32(0)]
  ELSE IF ~IsOk(FormatByte(h.format_byte_))
  THEN [status |-> FormatByte(h.format_byte_), value |-> ToU32(0)]
  ELSE IF h.private_ # kPrivate
  THEN [status |-> InvalidArgumentError("invalid_magic_number"),
        value |-> ToU32(0)]
  ELSE IF ~IsOk(CheckEven(h.data_size_))
  THEN [status |-> CheckEven(h.data_size_), value |-> ToU32(0)]
  ELSE [status |-> OkStatus, value |-> TotalFileSize(h)]

\* A reader that takes the 84 bytes at the position of the stream.
ReadFromDiskInPlace(s, signed) ==
  IF s.fail
  THEN [status |-> OutOfRangeError("seek_header"), h |-> NoHeader, s |-> s]
  ELSE LET rd == Read(s, kHeaderLength)
       IN  IF ~rd.ok
           THEN [status |-> OutOfRangeError("read_header"),
                 h |-> NoHeader, s |-> rd.s]
           ELSE [status |-> OkStatus,
                 h |-> DiskCopyHeaderBytes(rd.data, signed), s |-> rd.s]

\* DiskCopyHeader::ReadFromDisk(s)
ReadFromDisk(s, signed) ==
  LET sk == Seekg(s, 0)
  IN  IF sk.fail
      THEN [status |-> OutOfRangeError("seek_header"), h |-> NoHeader,
            s |-> sk]
      ELSE LET rd == Read(sk, kHeaderLength)
           IN  IF ~rd.ok
               THEN [status |-> OutOfRangeError("read_header"),
                     h |-> NoHeader, s |-> rd.s]
               ELSE [status |-> OkStatus,
                     h |-> DiskCopyHeaderBytes(rd.data, signed), s |-> rd.s]

\* DiskCopyHeader::VerifyDataChecksum(s)
VerifyDataChecksum(h, s, stale) ==
  LET sk == Seekg(s, kHeaderLength)
  IN  IF sk.fail
      THEN [status |-> OutOfRangeError("seek_data"), s |-> sk]
      ELSE LET r == UpdateSumFromFile(ToU32(0), sk, h.data_size_, stale)
               computed_sum == Sum(r.sum)
           IN  IF ~IsOk(r.status) THEN [status |-> r.status, s |-> r.s]
               ELSE IF computed_sum # h.header_data_checksum_
               THEN [status |-> NotFoundError("data_checksum_mismatch"),
                     s |-> r.s]
               ELSE [status |-> OkStatus, s |-> r.s]

---------------------------------------------------------------------------
(* HFSMasterDirectoryBlock *)

kMDBBytes == 512
kHFSBlockSize == 512
kHFSSignature == 16964
kMaxVolumeNameLength == 27
kMDBOffset == 1024

NoMDB == [none |-> TRUE, mdb |-> TRUE]

\* HFSMasterDirectoryBlock::HFSMasterDirectoryBlock(mdb_bytes)
HFSMasterDirectoryBlockBytes(mdb_bytes, signed) ==
  [ signature_ |-> BigEndian2(mdb_bytes, 0),
    volume_creation_date_ |-> BigEndian4(mdb_bytes, 2),
    last_modification_date_ |-> BigEndian4(mdb_bytes, 6),
    volume_attributes_ |-> BigEndian2(mdb_bytes, 10),
    num_files_root_directory_ |-> BigEndian2(mdb_bytes, 12),
    volume_bitmap_block_ |-> BigEndian2(mdb_bytes, 14),
    next_allocation_search_ |-> BigEndian2(mdb_bytes, 16),
    num_allocation_blocks_ |-> BigEndian2(mdb_bytes, 18),
    allocation_block_size_ |-> BigEndian4(mdb_bytes, 20),
    default_clump_size_ |-> BigEndian4(mdb_bytes, 24),
    first_allocation_block_ |-> BigEndian2(mdb_bytes, 28),
    next_unused_catalog_node_id_ |-> BigEndian4(mdb_bytes, 30),
    num_free_allocation_blocks_ |-> BigEndian2(mdb_bytes, 34),
    volume_name_length_ |-> CharToSizeT(mdb_bytes[37], signed),
    volume_name_bytes_ |-> SubSeq(mdb_bytes, 38, 37 + kMaxVolumeNameLength) ]

\* HFSMasterDirectoryBlock::ReadFromDisk(s)
HFSReadFromDisk(s, signed) ==
  LET sk == Seekg(s, kMDBOffset)
  IN  IF sk.fail
      THEN [status |-> OutOfRangeError("seek_mdb"), mdb |-> NoMDB, s |-> sk]
      ELSE LET rd == Read(sk, kMDBBytes)
           IN  IF ~rd.ok
               THEN [status |-> OutOfRangeError("read_mdb"), mdb |-> NoMDB,
                     s |-> rd.s]
               ELSE [status |-> OkStatus,
                     mdb |-> HFSMasterDirectoryBlockBytes(rd.data, signed),
                     s |-> rd.s]

\* A VolumeName that answers only for a block that Valid accepts.
VolumeNameOfValid(mdb) ==
  IF mdb.signature_ # kHFSSignature
     \/ SizeTGreater(mdb.volume_name_length_, kMaxVolumeNameLength)
  THEN [status |-> FailedPreconditionError("volume_name_length"),
        value |-> << >>]
  ELSE [status |-> OkStatus,
        value |-> SubSeq(mdb.volume_name_bytes_, 1,
                         mdb.volume_name_length_[1])]

\* HFSMasterDirectoryBlock::VolumeName()
VolumeName(mdb) ==
  IF SizeTGreater(mdb.volume_name_length_, kMaxVolumeNameLength)
  THEN [status |-> FailedPreconditionError("volume_name_length"),
        value |-> << >>]
  ELSE [status |-> OkStatus,
        value |-> SubSeq(mdb.volume_name_bytes_, 1,
                         mdb.volume_name_length_[1])]

\* HFSMasterDirectoryBlock::Valid(): the value is a uint64_t
Valid(mdb) ==
  IF mdb.signature_ # kHFSSignature
  THEN [status |-> FailedPreconditionError("signature_mismatch"),
        value |-> U64(ToU32(0))]
  ELSE LET mod == Mod32(mdb.allocation_block_size_, kHFSBlockSize) % Half
       IN  IF mod # 0
           THEN [status |-> FailedPreconditionError("allocation_size"),
                 value |-> U64(ToU32(0))]
           ELSE LET non_allocated_blocks ==
                      ToU32(mdb.first_allocation_block_ + 2)
                    allocation_hfs_blocks ==
                      U64(Mul32(Div32Small(mdb.allocation_block_size_,
                                           kHFSBlockSize),
                                mdb.num_allocation_blocks_))
                IN  [status |-> OkStatus,
                     value |-> Add64(U64(non_allocated_blocks),
                                     allocation_hfs_blocks)]

---------------------------------------------------------------------------
(* disk_copy_main.cc *)

\* the error of a container file that cannot be opened
CouldNotOpen == NotFoundError("could_not_open_disk_copy")

\* VerifyCommand(disk_copy): `file` is the file at the path, or NoFile;
\* `opened` is the set of paths the command has tried to open
VerifyCommand(disk_copy, file, signed, stale) ==
  IF disk_copy = ""
  THEN [status |-> InvalidArgumentError("verify_requires_disk_copy"),
        h |-> NoHeader, s |-> FailedStream, opened |-> {}]
  ELSE IF file = NoFile
  THEN [status |-> CouldNotOpen, h |-> NoHeader, s |-> FailedStream,
        opened |-> {disk_copy}]
  ELSE LET rh == ReadFromDisk(OpenStream(file), signed)
       IN  IF ~IsOk(rh.status)
           THEN [status |-> rh.status, h |-> NoHeader, s |-> rh.s,
                 opened |-> {disk_copy}]
           ELSE LET v == VerifyDataChecksum(rh.h, rh.s, stale)
                IN  [status |-> v.status, h |-> rh.h, s |-> v.s,
                     opened |-> {disk_copy}]

\* the block size of the copy loops of create and extract
kBlockSize == 512

\* ParseCommand(c)
ParseCommand(c) ==
  IF c \in {"create", "extract", "verify"}
  THEN [status |-> OkStatus, value |-> c]
  ELSE [status |-> InvalidArgumentError("unrecognized_command"),
        value |-> ""]

\* operator-> of an absl::StatusOr that holds an error: the process is
\* aborted, the call does not return
Crash == [code |-> "Crash", what |-> "StatusOr_without_value"]

\* the result of a command that stops before it opens its output file
Stopped(status, s, opened) ==
  [status |-> status, value |-> ToU32(0), s |-> s, out |-> NoFile,
   h |-> NoHeader, sum |-> ToU32(0), opened |-> opened]

\* One pass of the copy loop of CreateCommand.  wok: output.write succeeds.
CreateLoopBody(v) ==
  IF v.done THEN v
  ELSE IF ~LessSmall64(v.b, v.hfs_block_count)
  THEN [v EXCEPT !.done = TRUE]
  ELSE LET rd == Read(v.s, kBlockSize)
       IN  IF ~rd.ok
           THEN [v EXCEPT !.status = OutOfRangeError("read_block"),
                          !.s = rd.s, !.done = TRUE]
           ELSE IF ~v.wok
           THEN [v EXCEPT !.status = ResourceExhaustedError("write_block"),
                          !.s = rd.s, !.done = TRUE]
           ELSE [v EXCEPT !.s = rd.s, !.out = v.out \o rd.data,
                          !.b = v.b + 1]

RECURSIVE CreateLoopPasses(_, _)
CreateLoopPasses(v, n) ==
  IF n = 0 THEN v
  ELSE IF n = 1 THEN CreateLoopBody(v)
  ELSE LET h == n \div 2
           left == CreateLoopPasses(v, h)
       IN  IF left.done THEN left ELSE CreateLoopPasses(left, n - h)

\* A copy loop that also copies the block after the last one.
CreateLoopInclusive(s, out, hfs_block_count, wok) ==
  CreateLoopPasses([status |-> OkStatus, s |-> s, out |-> out, b |-> 0,
                    hfs_block_count |->
                      Add64(hfs_block_count, << 1, 0, 0, 0 >>),
                    wok |-> wok, done |-> FALSE],
                   Len(s.bytes) \div kBlockSize + 2)

\* for (uint32_t b = 0; b < *hfs_block_count; ++b): every pass but the last
\* reads a whole block, so the file length bounds the number of passes
CreateLoop(s, out, hfs_block_count, wok) ==
  CreateLoopPasses([status |-> OkStatus, s |-> s, out |-> out, b |-> 0,
                    hfs_block_count |-> hfs_block_count, wok |-> wok,
                    done |-> FALSE],
                   Len(s.bytes) \div kBlockSize + 2)

\* CreateCommand from the copy loop on: the result of the command
CreateCopied(copy, h, checksum, opened) ==
  [status |-> copy.status, value |-> ToU32(0), s |-> copy.s,
   out |-> copy.out, h |-> h, sum |-> checksum.sum, opened |-> opened]

\* CreateCommand from the written header on
CreateWritten(header_status, h, hfs_block_count, checksum, opened, wok) ==
  IF ~IsOk(header_status.status)
  THEN [status |-> header_status.status, value |-> ToU32(0),
        s |-> checksum.s, out |-> header_status.out, h |-> h,
        sum |-> checksum.sum, opened |-> opened]
  ELSE CreateCopied(CreateLoop(Seekg(checksum.s, 0), header_status.out,
                               hfs_block_count, wok),
                    h, checksum, opened)

\* CreateCommand from the opened output on: dch->WriteToDisk(output) is
\* reached whether or not dch holds a header
CreateOpened(dch, hfs_block_count, checksum, opened, wok) ==
  IF ~IsOk(dch.status)
  THEN [status |-> Crash, value |-> ToU32(0), s |-> checksum.s,
        out |-> << >>, h |-> NoHeader, sum |-> checksum.sum,
        opened |-> opened]
  ELSE CreateWritten(WriteToDisk(dch.h, << >>, wok), dch.h, hfs_block_count,
                     checksum, opened, wok)

\* CreateCommand from the computed checksum on
CreateSummed(hfs_name, hfs_block_count, checksum, input_image, disk_copy, wopen, wok) ==
  IF ~IsOk(checksum.status)
  THEN [Stopped(checksum.status, checksum.s, {input_image})
          EXCEPT !.sum = checksum.sum]
  ELSE IF ~wopen
  THEN [Stopped(ResourceExhaustedError("could_not_write_disk_copy"),
                checksum.s, {input_image, disk_copy})
          EXCEPT !.sum = checksum.sum]
  ELSE CreateOpened(CreateForHFS(hfs_name, Trunc32(hfs_block_count),
                                 Sum(checksum.sum), ToU32(0), ToU32(0)),
                    hfs_block_count, checksum, {input_image, disk_copy},
                    wok)

\* CreateCommand from the decoded block on
CreateDecoded(hfsmdb, hfs_block_count, hfs_name, input_image, disk_copy, wopen, wok, stale) ==
  IF ~IsOk(hfs_block_count.status)
  THEN Stopped(hfs_block_count.status, hfsmdb.s, {input_image})
  ELSE IF ~IsOk(hfs_name.status)
  THEN Stopped(hfs_name.status, hfsmdb.s, {input_image})
  ELSE IF Seekg(hfsmdb.s, 0).fail
  THEN Stopped(FailedPreconditionError("seek_image"), Seekg(hfsmdb.s, 0),
               {input_image})
  ELSE CreateSummed(hfs_name.value, hfs_block_count.value,
                    UpdateSumFromFile(ToU32(0), Seekg(hfsmdb.s, 0),
                      Trunc32(Mul64Small(hfs_block_count.value, 512)),
                      stale),
                    input_image, disk_copy, wopen, wok)

\* CreateCommand from the opened input on
CreateRead(hfsmdb, input_image, disk_copy, wopen, wok, stale) ==
  IF ~IsOk(hfsmdb.status)
  THEN Stopped(hfsmdb.status, hfsmdb.s, {input_image})
  ELSE CreateDecoded(hfsmdb, Valid(hfsmdb.mdb), VolumeName(hfsmdb.mdb),
                     input_image, disk_copy, wopen, wok, stale)

\* CreateCommand(input_image, disk_copy): `file` is the file at the path
\* input_image, or NoFile; wopen: the output file can be opened; wok: the
\* output stream accepts writes.  `out` is the content of the file at
\* disk_copy afterwards if the command has opened it, NoFile otherwise.
CreateCommand(input_image, disk_copy, file, wopen, wok, signed, stale) ==
  IF input_image = "" \/ disk_copy = ""
  THEN Stopped(InvalidArgumentError("create_requires_paths"), FailedStream,
               {})
  ELSE IF file = NoFile
  THEN Stopped(NotFoundError("could_not_open_input_image"), FailedStream,
               {input_image})
  ELSE CreateRead(HFSReadFromDisk(OpenStream(file), signed), input_image,
                  disk_copy, wopen, wok, stale)

\* One pass of the loop of ExtractCommand: while (bytes_remaining > 0)
ExtractLoopBody(v) ==
  IF v.done THEN v
  ELSE IF IsZero32(v.bytes_remaining) THEN [v EXCEPT !.done = TRUE]
  ELSE LET read_size == MinSmall32(v.bytes_remaining, kBlockSize)
           rd == Read(v.s, read_size)
       IN  IF ~rd.ok
           THEN [v EXCEPT !.status = OutOfRangeError("read_data"),
                          !.s = rd.s, !.done = TRUE]
           ELSE
           LET nbuf == FillBuf(v.buf, rd.data)
               sum_status == UpdateSumFromBlock(v.sum, nbuf, read_size)
               rest == SubSmall32(v.bytes_remaining, read_size)
           IN  IF ~IsOk(sum_status.status)
               THEN [v EXCEPT !.status = sum_status.status,
                              !.sum = sum_status.sum, !.s = rd.s,
                              !.buf = nbuf, !.bytes_remaining = rest,
                              !.done = TRUE]
               ELSE IF ~v.wok
               THEN [v EXCEPT !.status =
                                ResourceExhaustedError("write_data"),
                              !.sum = sum_status.sum, !.s = rd.s,
                              !.buf = nbuf, !.bytes_remaining = rest,
                              !.done = TRUE]
               ELSE [v EXCEPT !.sum = sum_status.sum, !.s = rd.s,
                              !.buf = nbuf, !.bytes_remaining = rest,
                              !.out = v.out \o rd.data]

RECURSIVE ExtractLoopPasses(_, _)
ExtractLoopPasses(v, n) ==
  IF n = 0 THEN v
  ELSE IF n = 1 THEN ExtractLoopBody(v)
  ELSE LET h == n \div 2
           left == ExtractLoopPasses(v, h)
       IN  IF left.done THEN left ELSE ExtractLoopPasses(left, n - h)

\* every pass but the last two reads a whole block, so the file length
\* bounds the number of passes
ExtractLoop(s, total_bytes_to_read, wok, stale) ==
  ExtractLoopPasses([status |-> OkStatus, sum |-> ToU32(0), s |-> s,
                     buf |-> [i \in 1..kBlockSize |-> stale],
                     bytes_remaining |-> total_bytes_to_read,
                     out |-> << >>, wok |-> wok, done |-> FALSE],
                    Len(s.bytes) \div kBlockSize + 2)

\* ExtractCommand from the end of the loop on
ExtractCopied(v, h, ignore_data_checksum, opened) ==
  IF ~IsOk(v.status)
  THEN [status |-> v.status, value |-> ToU32(0), s |-> v.s, out |-> v.out,
        h |-> h, sum |-> v.sum, opened |-> opened]
  ELSE IF Sum(v.sum) # h.header_data_checksum_ /\ ~ignore_data_checksum
  THEN [status |-> FailedPreconditionError("data_checksum_mismatch"),
        value |-> ToU32(0), s |-> v.s, out |-> v.out, h |-> h,
        sum |-> v.sum, opened |-> opened]
  ELSE [status |-> OkStatus, value |-> h.data_size_, s |-> v.s,
        out |-> v.out, h |-> h, sum |-> v.sum, opened |-> opened]

\* ExtractCommand from the read header on
ExtractRead(rh, disk_copy, output_image, ignore_data_checksum, wopen, wok, stale) ==
  IF ~IsOk(rh.status) THEN Stopped(rh.status, rh.s, {disk_copy})
  ELSE IF ~IsOk(Validate(rh.h).status)
  THEN [Stopped(Validate(rh.h).status, rh.s, {disk_copy}) EXCEPT !.h = rh.h]
  ELSE IF ~wopen
  THEN [Stopped(ResourceExhaustedError("could_not_open_output_image"),
                rh.s, {disk_copy, output_image}) EXCEPT !.h = rh.h]
  ELSE ExtractCopied(ExtractLoop(rh.s, rh.h.data_size_, wok, stale), rh.h,
                     ignore_data_checksum, {disk_copy, output_image})

\* ExtractCommand(disk_copy, output_image, ignore_data_checksum): `file` is
\* the file at the path disk_copy, or NoFile; wopen: the output file can be
\* opened; wok: the output stream accepts writes; `stale` is the content of
\* the uninitialised buf.  `out` is the content of the file at output_image
\* afterwards if the command has opened it, NoFile otherwise.
ExtractCommand(disk_copy, output_image, ignore_data_checksum, file, wopen, wok, signed, stale) ==
  IF disk_copy = "" \/ output_image = ""
  THEN Stopped(InvalidArgumentError("extract_requires_paths"), FailedStream,
               {})
  ELSE IF file = NoFile
  THEN Stopped(CouldNotOpen, FailedStream, {disk_copy})
  ELSE ExtractRead(ReadFromDisk(OpenStream(file), signed), disk_copy,
                   output_image, ignore_data_checksum, wopen, wok, stale)

\* the file system the program runs on: the files at the three paths
NoFiles == [input_image |-> NoFile, disk_copy |-> NoFile,
            output_image |-> NoFile]

\* what a run leaves: the exit code, the status, the files, and the objects
\* of the command at its end
Exit(code, status, files, r) ==
  [exit |-> code, status |-> status, value |-> r.value, files |-> files,
   s |-> r.s, out |-> r.out, h |-> r.h, sum |-> r.sum, opened |-> r.opened]

NoCommand == Stopped(OkStatus, FailedStream, {})

\* the result of VerifyCommand in the shape of the other two commands
Verified(v) == [Stopped(v.status, v.s, v.opened) EXCEPT !.h = v.h]

\* the switch of main on the parsed command
Switch(cmd, flags, files, wopen, wok, signed, stale) ==
  CASE cmd = "create" ->
         CreateCommand(flags.input_image, flags.disk_copy,
                       files.input_image, wopen, wok, signed, stale)
    [] cmd = "extract" ->
         ExtractCommand(flags.disk_copy, flags.output_image,
                        flags.ignore_data_checksum, files.disk_copy, wopen,
                        wok, signed, stale)
    [] cmd = "verify" ->
         Verified(VerifyCommand(flags.disk_copy, files.disk_copy, signed,
                                stale))

\* the file system after a command that has opened its output file
After(cmd, r, files) ==
  IF r.out = NoFile THEN files
  ELSE IF cmd = "create" THEN [files EXCEPT !.disk_copy = r.out]
  ELSE [files EXCEPT !.output_image = r.out]

\* the end of main: exit code 2 for a failed command, 0 otherwise; 134
\* stands for the abort of the process
Return(cmd, r, files) ==
  IF r.status = Crash THEN Exit(134, r.status, After(cmd, r, files), r)
  ELSE IF ~IsOk(r.status) THEN Exit(2, r.status, After(cmd, r, files), r)
  ELSE Exit(0, r.status, After(cmd, r, files), r)

\* A main that passes the flag on without checking the command.
mainFlagEverywhere(positional_args, flags, files, wopen, wok, signed, stale) ==
  IF Len(positional_args) # 1
  THEN Exit(1, InvalidArgumentError("usage"), files, NoCommand)
  ELSE IF ~IsOk(ParseCommand(positional_args[1]).status)
  THEN Exit(1, ParseCommand(positional_args[1]).status, files, NoCommand)
  ELSE Return(positional_args[1],
              Switch(positional_args[1], flags, files, wopen, wok, signed,
                     stale),
              files)

\* main: positional_args are the arguments after the program name, flags
\* the values of the four command-line flags, files the file system.  The
\* exit code is 1 for a usage error.
main(positional_args, flags, files, wopen, wok, signed, stale) ==
  IF Len(positional_args) # 1
  THEN Exit(1, InvalidArgumentError("usage"), files, NoCommand)
  ELSE IF ~IsOk(ParseCommand(positional_args[1]).status)
  THEN Exit(1, ParseCommand(positional_args[1]).status, files, NoCommand)
  ELSE IF ParseCommand(positional_args[1]).value \in {"create", "verify"}
            /\ flags.ignore_data_checksum
  THEN Exit(2, InvalidArgumentError("cannot_use_ignore_data_checksum"),
            files, NoCommand)
  ELSE Return(positional_args[1],
              Switch(positional_args[1], flags, files, wopen, wok, signed,
                     stale),
              files)

---------------------------------------------------------------------------
(* Bounds and inputs *)

MaxCalls == 1     \* calls made on one DiskCopyChecksum object
MaxWrites == 1    \* headers written to one output stream
MaxRuns == 1      \* runs of the program on one file system
MaxSteps == 2     \* commands run one after the other on one volume image

NoArgs == [kind |-> "none"]
NoCall == [op |-> "none"]

\* content of the uninitialised memory that a call may read
StaleBytes == {0, 165}

\* the choices for the stale char of a call that feeds byte_count bytes: the
\* char is read only when the count is odd
StaleFor(byte_count) == IF Mod32(byte_count, 2) = 1 THEN StaleBytes ELSE {0}

\* a file of len bytes
FileBytes(len, a, c) == [i \in 1..len |-> (a * i + c) % 256]

Seeds == { U32(0, 0), U32(32768, 4660), U32(65535, 65535) }

Words == { 0, 1, 9321, 32768, 65534, 65535 }

Blocks ==
  { << >>, << 36, 105 >>, << 0, 1, 255, 255 >>, << 255 >>,
    << 36, 105, 128 >>, << 255, 255, 255, 254, 18 >> }

ByteCounts ==
  { ToU32(0), ToU32(2), ToU32(1024), ToU32(1026), ToU32(2050),
    ToU32(3), ToU32(1025), U32(65535, 65534) }

SumStreams ==
  { OpenStream(FileBytes(2052, 7, 3)),
    Seekg(OpenStream(FileBytes(2052, 7, 3)), 2),
    OpenStream(FileBytes(1030, 201, 0)) }

---------------------------------------------------------------------------
(* The checksum object and a stream it reads *)

InitSum ==
  /\ charSigned = TRUE   \* the checksum reads chars as uint8_t only
  /\ sum_ \in Seeds
  /\ header = NoHeader
  /\ disk = NoFile
  /\ input \in SumStreams
  /\ output = << >>
  /\ args = NoArgs
  /\ result = NoCall
  /\ calls = 0

DoUpdateSum ==
  /\ calls < MaxCalls
  /\ \E w \in Words :
       /\ sum_' = UpdateSum(sum_, w)
       /\ result' = [op |-> "UpdateSum", sum0 |-> sum_, word |-> w,
                     ret |-> UpdateSum(sum_, w)]
  /\ calls' = calls + 1
  /\ UNCHANGED <<charSigned, header, disk, input, output, args>>

DoUpdateSumFromBlock ==
  /\ calls < MaxCalls
  /\ \E b \in Blocks : \E stale \in StaleFor(ToU32(Len(b))) :
       LET r == UpdateSumFromBlock(sum_, b \o << stale >>, Len(b))
       IN  /\ sum_' = r.sum
           /\ result' = [op |-> "UpdateSumFromBlock", sum0 |-> sum_,
                         buffer |-> b, status |-> r.status]
  /\ calls' = calls + 1
  /\ UNCHANGED <<charSigned, header, disk, input, output, args>>

DoUpdateSumFromFile ==
  /\ calls < MaxCalls
  /\ \E n \in ByteCounts : \E stale \in StaleFor(n) :
       LET r == UpdateSumFromFile(sum_, input, n, stale)
       IN  /\ sum_' = r.sum
           /\ input' = r.s
           /\ result' = [op |-> "UpdateSumFromFile", sum0 |-> sum_,
                         byte_count |-> n, pos0 |-> input.pos,
                         fail0 |-> input.fail, status |-> r.status]
  /\ calls' = calls + 1
  /\ UNCHANGED <<charSigned, header, disk, output, args>>

NextSum == DoUpdateSum \/ DoUpdateSumFromBlock \/ DoUpdateSumFromFile

SpecSum == InitSum /\ [][NextSum]_vars

---------------------------------------------------------------------------
(* A header object: decoded from 84 bytes or created for an HFS volume *)

NameArea == [i \in 1..kMaxNameLength |-> IF i = 7 THEN 0 ELSE (i * 37 + 200) % 256]

NameLengthBytes == { 0, 5, 63, 64, 128 }
DataSizeBytes == { << 0, 6, 64, 0 >>, << 0, 0, 0, 1 >>, << 255, 255, 255, 254 >> }
TagSizeBytes == { << 0, 0, 0, 0 >>, << 255, 255, 255, 255 >> }
DiskFormatBytes == { 0, 3, 4 }
FormatBytes == { 18, 36, 150 }
MagicBytes == { << 1, 0 >>, << 0, 1 >> }

HeaderImages ==
  { << nl >> \o NameArea \o ds \o ts \o << 128, 0, 18, 52 >>
      \o << 222, 173, 190, 239 >> \o << df, fb >> \o mg :
      nl \in NameLengthBytes, ds \in DataSizeBytes, ts \in TagSizeBytes,
      df \in DiskFormatBytes, fb \in FormatBytes, mg \in MagicBytes }

NameOfLength(len) == [i \in 1..len |-> 65 + (i % 26)]

VolumeNames ==
  { NameOfLength(0), NameOfLength(27), NameOfLength(63), NameOfLength(64),
    << 72, 68, 0, 49 >> }

BlockCounts ==
  { ToU32(800), ToU32(1600), ToU32(1440), ToU32(2880), ToU32(1000),
    ToU32(0), U32(128, 800) }

TagByteCounts == { ToU32(0), ToU32(9600), U32(65535, 65535) }

HeaderArgs ==
  { [kind |-> "bytes", bytes |-> b] : b \in HeaderImages }
  \cup
  { [kind |-> "hfs", name |-> n, data_block_count |-> c,
     data_checksum |-> U32(32768, 4660), tag_byte_count |-> t,
     tag_checksum |-> k] :
      n \in VolumeNames, c \in BlockCounts, t \in TagByteCounts,
      k \in { ToU32(0), U32(2989, 61453) } }

InitHeader ==
  /\ charSigned \in BOOLEAN
  /\ sum_ = ToU32(0)
  /\ header = NoHeader
  /\ disk = NoFile
  /\ input = FailedStream
  /\ output = << >>
  /\ args \in HeaderArgs
  /\ result = NoCall
  /\ calls = 0

DoDecode ==
  /\ args.kind = "bytes"
  /\ header' = DiskCopyHeaderBytes(args.bytes, charSigned)
  /\ result' = [op |-> "DiskCopyHeader", status |-> OkStatus]
  /\ UNCHANGED <<charSigned, sum_, disk, input, output, args, calls>>

DoCreateForHFS ==
  /\ args.kind = "hfs"
  /\ LET r == CreateForHFS(args.name, args.data_block_count,
                           args.data_checksum, args.tag_byte_count,
                           args.tag_checksum)
     IN  /\ header' = r.h
         /\ result' = [op |-> "CreateForHFS", status |-> r.status]
  /\ UNCHANGED <<charSigned, sum_, disk, input, output, args, calls>>

DoValidate ==
  /\ header # NoHeader
  /\ LET r == Validate(header)
     IN  result' = [op |-> "Validate", status |-> r.status,
                    value |-> r.value]
  /\ UNCHANGED <<charSigned, sum_, header, disk, input, output, args, calls>>

DoTotalFileSize ==
  /\ header # NoHeader
  /\ result' = [op |-> "TotalFileSize", status |-> OkStatus,
                value |-> TotalFileSize(header)]
  /\ UNCHANGED <<charSigned, sum_, header, disk, input, output, args, calls>>

DoWriteToDisk ==
  /\ header # NoHeader
  /\ Len(output) < MaxWrites * kHeaderLength
  /\ \E wok \in BOOLEAN :
       LET r == WriteToDisk(header, output, wok)
       IN  /\ output' = r.out
           /\ result' = [op |-> "WriteToDisk", status |-> r.status]
  /\ UNCHANGED <<charSigned, sum_, header, disk, input, args, calls>>

NextHeader ==
  \/ DoDecode
  \/ DoCreateForHFS
  \/ DoValidate
  \/ DoTotalFileSize
  \/ DoWriteToDisk

SpecHeader == InitHeader /\ [][NextHeader]_vars

---------------------------------------------------------------------------
(* The verify command and the calls it is made of, on a container file *)

\* the four bytes of a 32-bit value in a container image
Quad(v) == << v.hi \div 256, v.hi % 256, v.lo \div 256, v.lo % 256 >>

\* a container image: a well-formed header that declares data_size bytes
\* of data with the checksum `declared`, then the bytes `rest`
ContainerImage(data_size, declared, rest) ==
  << 5 >> \o NameArea \o Quad(data_size) \o Quad(ToU32(0)) \o Quad(declared)
    \o Quad(ToU32(0)) \o << 0, 18 >> \o << 1, 0 >> \o rest

\* the checksum the code computes over the first n bytes of `bytes`, an odd
\* n completed with a zero byte
ChecksumOf(bytes, n) ==
  SumLoop(ToU32(0), SubSeq(bytes, 1, n) \o << 0 >>, 0, (n + 1) \div 2)

DataSizes == { 0, 4, 1026, 2050, 3, 1025 }

\* the containers that declare d bytes of data: the declared checksum right
\* or wrong, the file 2 bytes short, exact, or 12 bytes longer
ContainersOf(d) ==
  { ContainerImage(ToU32(d), Add32(ChecksumOf(FileBytes(d, 7, 3), d),
                                   ToU32(wrong)),
                   FileBytes(len, 7, 3)) :
      wrong \in {0, 1}, len \in { l \in {d - 2, d, d + 12} : l >= 0 } }

Containers == UNION { ContainersOf(d) : d \in DataSizes }

Disks == Containers \cup { NoFile, FileBytes(10, 7, 3) }

Paths == { "", "image.dc42" }

SeekPositions == { 10, 3000 }

InitCmd ==
  /\ charSigned \in BOOLEAN
  /\ sum_ = ToU32(0)
  /\ header = NoHeader
  /\ disk \in Disks
  /\ input = IF disk = NoFile THEN FailedStream ELSE OpenStream(disk)
  /\ output = << >>
  /\ args = NoArgs
  /\ result = NoCall
  /\ calls = 0

DoReadFromDisk ==
  /\ LET r == ReadFromDisk(input, charSigned)
     IN  /\ header' = r.h
         /\ input' = r.s
         /\ result' = [op |-> "ReadFromDisk", status |-> r.status,
                       pos0 |-> input.pos, fail0 |-> input.fail]
  /\ UNCHANGED <<charSigned, sum_, disk, output, args, calls>>

\* the caller moves the stream: s.seekg(p)
DoSeek ==
  /\ \E p \in SeekPositions :
       /\ input' = Seekg(input, p)
       /\ input' # input
  /\ result' = [op |-> "seekg", status |-> OkStatus]
  /\ UNCHANGED <<charSigned, sum_, header, disk, output, args, calls>>

DoVerifyDataChecksum ==
  /\ header # NoHeader
  /\ \E stale \in StaleFor(header.data_size_) :
       LET r == VerifyDataChecksum(header, input, stale)
       IN  /\ input' = r.s
           /\ result' = [op |-> "VerifyDataChecksum", status |-> r.status,
                         pos0 |-> input.pos, fail0 |-> input.fail]
  /\ UNCHANGED <<charSigned, sum_, header, disk, output, args, calls>>

\* a run of the program with the verify command: main starts with no
\* stream open and no header read
DoVerifyCommand ==
  /\ result = NoCall
  /\ \E disk_copy \in Paths : \E stale \in StaleBytes :
       LET r == VerifyCommand(disk_copy, disk, charSigned, stale)
       IN  /\ header' = r.h
           /\ input' = r.s
           /\ result' = [op |-> "VerifyCommand", status |-> r.status,
                         pos0 |-> 0, fail0 |-> FALSE]
  /\ UNCHANGED <<charSigned, sum_, disk, output, args, calls>>

NextCmd ==
  \/ DoReadFromDisk
  \/ DoSeek
  \/ DoVerifyDataChecksum
  \/ DoVerifyCommand

SpecCmd == InitCmd /\ [][NextCmd]_vars

---------------------------------------------------------------------------
(* The header read from any position of the stream, and the extract       *)
(* command on the same container file                                     *)

\* a run of ExtractCommand without the ignore flag, its output file opened:
\* the command opens the stream itself; wok: the output accepts writes
DoExtractCommand ==
  /\ result = NoCall
  /\ \E wok \in BOOLEAN : \E stale \in StaleBytes :
       LET r == ExtractCommand("image.dc42", "volume.hfs", FALSE, disk, TRUE,
                               wok, charSigned, stale)
       IN  /\ header' = r.h
           /\ input' = r.s
           /\ output' = IF r.out = NoFile THEN << >> ELSE r.out
           /\ result' = [op |-> "ExtractCommand", status |-> r.status,
                         pos0 |-> 0, fail0 |-> FALSE, opened |-> r.opened,
                         wok |-> wok]
  /\ UNCHANGED <<charSigned, sum_, disk, args, calls>>

NextRead ==
  \/ DoReadFromDisk
  \/ DoSeek
  \/ DoExtractCommand

SpecRead == InitCmd /\ [][NextRead]_vars

---------------------------------------------------------------------------
(* A master directory block read from a raw volume image *)

\* a 512-byte block with the given fields at their offsets
MDBBlock(signature, num_blocks, block_size, first_block, name_length) ==
  LET sig == WriteBigEndian2(signature)
      nab == WriteBigEndian2(num_blocks)
      abs == WriteBigEndian4(block_size)
      fab == WriteBigEndian2(first_block)
      name == << 72, 70, 0, 83 >>
  IN  [i \in 1..kMDBBytes |->
         IF i <= 2 THEN sig[i]
         ELSE IF i \in 19..20 THEN nab[i - 18]
         ELSE IF i \in 21..24 THEN abs[i - 20]
         ELSE IF i \in 29..30 THEN fab[i - 28]
         ELSE IF i = 37 THEN name_length
         ELSE IF i \in 38..41 THEN name[i - 37]
         ELSE (3 * i + 1) % 256]

\* a raw volume image: the boot blocks, then the block
ImageOf(block) == [i \in 1..kMDBOffset |-> 0] \o block

Signatures == { 16964, 16965 }
AllocationBlockSizes ==
  { U32(0, 0), U32(0, 512), U32(0, 600), U32(0, 1024), U32(1, 0),
    U32(1024, 0), U32(32768, 0), U32(65535, 65024), U32(65535, 65535) }
NumAllocationBlocks == { 0, 1, 798, 32768, 65535 }
FirstAllocationBlocks == { 0, 16, 65535 }
VolumeNameLengthBytes == { 0, 3, 27, 28, 127, 128, 255 }

MDBBlocks ==
  { MDBBlock(g, n, z, f, l) :
      g \in Signatures, n \in NumAllocationBlocks,
      z \in AllocationBlockSizes, f \in FirstAllocationBlocks,
      l \in VolumeNameLengthBytes }

\* images that hold a whole block, and one that ends inside it
HFSImages ==
  { ImageOf(b) : b \in MDBBlocks }
    \cup { SubSeq(ImageOf(MDBBlock(16964, 798, U32(0, 512), 0, 3)), 1, 1200),
           << >> }

InitHFS ==
  /\ charSigned \in BOOLEAN
  /\ sum_ = ToU32(0)
  /\ header = NoMDB
  /\ disk = NoFile
  /\ input \in { OpenStream(img) : img \in HFSImages }
  /\ output = << >>
  /\ args = NoArgs
  /\ result = NoCall
  /\ calls = 0

DoHFSReadFromDisk ==
  /\ header = NoMDB
  /\ result = NoCall
  /\ LET r == HFSReadFromDisk(input, charSigned)
     IN  /\ header' = r.mdb
         /\ input' = r.s
         /\ result' = [op |-> "HFSReadFromDisk", status |-> r.status]
  /\ UNCHANGED <<charSigned, sum_, disk, output, args, calls>>

DoValid ==
  /\ header # NoMDB
  /\ LET r == Valid(header)
     IN  result' = [op |-> "Valid", status |-> r.status, value |-> r.value]
  /\ UNCHANGED <<charSigned, sum_, header, disk, input, output, args, calls>>

DoVolumeName ==
  /\ header # NoMDB
  /\ LET r == VolumeName(header)
     IN  result' = [op |-> "VolumeName", status |-> r.status,
                    value |-> r.value]
  /\ UNCHANGED <<charSigned, sum_, header, disk, input, output, args, calls>>

NextHFS ==
  \/ DoHFSReadFromDisk
  \/ DoValid
  \/ DoVolumeName

SpecHFS == InitHFS /\ [][NextHFS]_vars

---------------------------------------------------------------------------
(* The big-endian codec on a 2- or 4-byte buffer *)

ByteSamples == { 0, 1, 18, 52, 127, 128, 255 }

Values2 ==
  { [kind |-> "value2", value |-> 256 * a + b] :
      a \in ByteSamples, b \in ByteSamples }

Buffers2 ==
  { [kind |-> "buffer2", bytes |-> << a, b >>] :
      a \in ByteSamples, b \in ByteSamples }

Values4 ==
  { [kind |-> "value4", value |-> U32(256 * a + b, 256 * c + d)] :
      a \in ByteSamples, b \in ByteSamples, c \in ByteSamples,
      d \in ByteSamples }

Buffers4 ==
  { [kind |-> "buffer4", bytes |-> << a, b, c, d >>] :
      a \in ByteSamples, b \in ByteSamples, c \in ByteSamples,
      d \in ByteSamples }

\* `output` is the buffer: given for a read, not yet written for a write
InitEndian ==
  /\ charSigned \in BOOLEAN
  /\ sum_ = ToU32(0)
  /\ header = NoHeader
  /\ disk = NoFile
  /\ input = FailedStream
  /\ \/ args \in Values2
     \/ args \in Buffers2
     \/ args \in Values4
     \/ args \in Buffers4
  /\ output = IF args.kind \in {"buffer2", "buffer4"} THEN args.bytes
              ELSE << >>
  /\ result = NoCall
  /\ calls = 0

\* the value to write: the one given, or the one just read from the buffer
DoWriteBigEndian2 ==
  /\ \/ args.kind = "value2" /\ result = NoCall
     \/ args.kind = "buffer2" /\ result.op = "BigEndian2"
  /\ LET value == IF result = NoCall THEN args.value ELSE result.value
     IN  /\ output' = WriteBigEndian2(value)
         /\ result' = [op |-> "WriteBigEndian2", value |-> value]
  /\ UNCHANGED <<charSigned, sum_, header, disk, input, args, calls>>

DoBigEndian2 ==
  /\ \/ args.kind = "value2" /\ result.op = "WriteBigEndian2"
     \/ args.kind = "buffer2" /\ result = NoCall
  /\ result' = [op |-> "BigEndian2", value |-> BigEndian2(output, 0)]
  /\ UNCHANGED <<charSigned, sum_, header, disk, input, output, args, calls>>

DoWriteBigEndian4 ==
  /\ \/ args.kind = "value4" /\ result = NoCall
     \/ args.kind = "buffer4" /\ result.op = "BigEndian4"
  /\ LET value == IF result = NoCall THEN args.value ELSE result.value
     IN  /\ output' = WriteBigEndian4(value)
         /\ result' = [op |-> "WriteBigEndian4", value |-> value]
  /\ UNCHANGED <<charSigned, sum_, header, disk, input, args, calls>>

DoBigEndian4 ==
  /\ \/ args.kind = "value4" /\ result.op = "WriteBigEndian4"
     \/ args.kind = "buffer4" /\ result = NoCall
  /\ result' = [op |-> "BigEndian4", value |-> BigEndian4(output, 0)]
  /\ UNCHANGED <<charSigned, sum_, header, disk, input, output, args, calls>>

NextEndian ==
  \/ DoWriteBigEndian2
  \/ DoBigEndian2
  \/ DoWriteBigEndian4
  \/ DoBigEndian4

SpecEndian == InitEndian /\ [][NextEndian]_vars

---------------------------------------------------------------------------
(* Runs of the program on a file system *)

\* bytes with the bytes `new` put at offset off
Patch(bytes, off, new) ==
  SubSeq(bytes, 1, off) \o new
    \o SubSeq(bytes, off + Len(new) + 1, Len(bytes))

\* the containers whose header does not validate: the magic number or the
\* disk format byte of a container with four bytes of data is changed
MalformedContainers ==
  { Patch(c, 82, << 1, 1 >>) : c \in ContainersOf(4) }
    \cup { Patch(c, 80, << 9 >>) : c \in ContainersOf(4) }

\* containers that declare tag data
TaggedContainers ==
  { Patch(Patch(c, 68, << 0, 0, 0, 12 >>), 76, << 222, 173, 190, 239 >>) :
      c \in ContainersOf(4) \cup ContainersOf(3) }

\* the containers whose declared checksum is right and whose data region
\* is whole and of even length
SoundContainers ==
  { ContainerImage(ToU32(d), ChecksumOf(FileBytes(d, 7, 3), d),
                   FileBytes(d + extra, 7, 3)) :
      d \in {4, 1026}, extra \in {0, 12} }

\* one byte of the data region of a sound container changed: any of the
\* first four bytes and of the last two, in one bit or in all of them
CorruptedContainers ==
  { Patch(c, kHeaderLength + at, << (c[kHeaderLength + at + 1] + by) % 256 >>) :
      c \in { ContainerImage(ToU32(d), ChecksumOf(FileBytes(d, 7, 3), d),
                             FileBytes(d + extra, 7, 3)) :
                d \in {1026}, extra \in {0, 12} },
      at \in {0, 1, 2, 3, 510, 511, 512, 513, 1024, 1025},
      by \in {1, 128, 255} }
    \cup
  { Patch(c, kHeaderLength + at, << (c[kHeaderLength + at + 1] + by) % 256 >>) :
      c \in { ContainerImage(ToU32(d), ChecksumOf(FileBytes(d, 7, 3), d),
                             FileBytes(d + extra, 7, 3)) :
                d \in {4}, extra \in {0, 12} },
      at \in {0, 1, 2, 3}, by \in {1, 2, 64, 128, 255} }

\* raw volume images too small for any of the four floppy sizes: the
\* declared size is 2 blocks, or 800 blocks of which 3 are present, or the
\* block does not validate, or the name is too long, or the image ends
\* inside the block
SmallImages ==
  { ImageOf(MDBBlock(16964, 0, U32(0, 512), 0, 3)),
    ImageOf(MDBBlock(16964, 0, U32(0, 512), 0, 3)) \o FileBytes(1024, 7, 3),
    ImageOf(MDBBlock(16964, 1, U32(0, 1024), 16, 27)) \o FileBytes(9728, 7, 3),
    ImageOf(MDBBlock(16964, 798, U32(0, 512), 0, 3)),
    ImageOf(MDBBlock(16965, 798, U32(0, 512), 0, 3)),
    ImageOf(MDBBlock(16964, 798, U32(0, 600), 0, 3)),
    ImageOf(MDBBlock(16964, 798, U32(0, 512), 0, 28)),
    ImageOf(MDBBlock(16964, 798, U32(0, 512), 0, 128)),
    SubSeq(ImageOf(MDBBlock(16964, 798, U32(0, 512), 0, 3)), 1, 1200) }

FileSystems ==
  { [NoFiles EXCEPT !.disk_copy = c] :
      c \in Containers \cup MalformedContainers \cup TaggedContainers
              \cup SoundContainers \cup CorruptedContainers
              \cup { FileBytes(10, 7, 3) } }
    \cup { [NoFiles EXCEPT !.input_image = img] : img \in SmallImages }
    \cup { NoFiles }

CommandLines ==
  { << >>, << "create" >>, << "extract" >>, << "verify" >>, << "format" >>,
    << "verify", "extract" >> }

\* the flags: the three paths given or left empty
FlagsGiven(ignore_data_checksum) ==
  [ignore_data_checksum |-> ignore_data_checksum,
   input_image |-> "volume.hfs", disk_copy |-> "image.dc42",
   output_image |-> "out.hfs"]

FlagSets ==
  { FlagsGiven(TRUE), FlagsGiven(FALSE),
    [ignore_data_checksum |-> FALSE, input_image |-> "", disk_copy |-> "",
     output_image |-> ""] }

\* the output file: writable, not to be opened, or opened and then full
Outputs ==
  { [wopen |-> TRUE, wok |-> TRUE], [wopen |-> FALSE, wok |-> TRUE],
    [wopen |-> TRUE, wok |-> FALSE] }

\* A file is kept on disk as its sectors of 512 bytes, the last one
\* possibly shorter.
kSectorSize == 512

Sectors(bytes) ==
  [k \in 1..((Len(bytes) + kSectorSize - 1) \div kSectorSize) |->
     SubSeq(bytes, kSectorSize * (k - 1) + 1,
            IF kSectorSize * k < Len(bytes) THEN kSectorSize * k
            ELSE Len(bytes))]

Flat(sectors) ==
  IF sectors = << >> THEN << >>
  ELSE LET total == kSectorSize * (Len(sectors) - 1)
                      + Len(sectors[Len(sectors)])
       IN  SubSeq([i \in 1..total |->
                     sectors[(i - 1) \div kSectorSize + 1]
                            [((i - 1) % kSectorSize) + 1]], 1, total)

Stored(file) ==
  [exists |-> file # NoFile,
   sectors |-> IF file = NoFile THEN << >> ELSE Sectors(file)]

Bytes(stored) == IF stored.exists THEN Flat(stored.sectors) ELSE NoFile

StoredFiles(files) ==
  [input_image |-> Stored(files.input_image),
   disk_copy |-> Stored(files.disk_copy),
   output_image |-> Stored(files.output_image)]

FilesOf(stored) ==
  [input_image |-> Bytes(stored.input_image),
   disk_copy |-> Bytes(stored.disk_copy),
   output_image |-> Bytes(stored.output_image)]

\* `disk` is the file system.  The streams are locals of the commands: no
\* stream is open between two runs.
InitMain ==
  /\ charSigned \in BOOLEAN
  /\ sum_ = ToU32(0)
  /\ header = NoHeader
  /\ disk \in { StoredFiles(files) : files \in FileSystems }
  /\ input = FailedStream
  /\ output = NoFile
  /\ args = NoArgs
  /\ result = NoCall
  /\ calls = 0

\* what a run r of the program leaves: the files, and in `result` the exit
\* code, the status, the paths opened, the position and state of the input
\* stream at the end and the number of bytes written to the output
Ran(r, positional_args, flags, wopen, wok) ==
  /\ disk' = StoredFiles(r.files)
  /\ header' = r.h
  /\ sum_' = r.sum
  /\ args' = [kind |-> "main", positional_args |-> positional_args,
              flags |-> flags, wopen |-> wopen, wok |-> wok]
  /\ result' = [op |-> "main", exit |-> r.exit, status |-> r.status,
                value |-> r.value, opened |-> r.opened, pos |-> r.s.pos,
                fail |-> r.s.fail,
                written |-> IF r.out = NoFile THEN 0 ELSE Len(r.out)]
  /\ calls' = calls + 1
  /\ UNCHANGED <<charSigned, input, output>>

\* one run of the program
RunMain(positional_args, flags, wopen, wok, stale) ==
  Ran(main(positional_args, flags, FilesOf(disk), wopen, wok, charSigned,
           stale),
      positional_args, flags, wopen, wok)

DoMain ==
  /\ calls < MaxRuns
  /\ \E positional_args \in CommandLines : \E flags \in FlagSets :
       \E o \in Outputs : \E stale \in StaleBytes :
         RunMain(positional_args, flags, o.wopen, o.wok, stale)

NextMain ==
  \/ DoMain

SpecMain == InitMain /\ [][NextMain]_vars

---------------------------------------------------------------------------
(* A volume image made into a container, verified and extracted *)

\* a raw volume image of len bytes: the boot blocks, the block, and data
VolumeImage(block, len) ==
  ImageOf(block) \o FileBytes(len - kMDBOffset - kMDBBytes, 7, 3)

\* 400k volumes of 800 blocks: one with a 3-byte name, and, one block
\* longer than declared, one whose name length byte is 28
FloppyImages ==
  { VolumeImage(MDBBlock(16964, 798, U32(0, 512), 0, 3), 409600),
    VolumeImage(MDBBlock(16964, 798, U32(0, 512), 0, 28), 410112) }

InitEndToEnd ==
  /\ charSigned \in BOOLEAN
  /\ sum_ = ToU32(0)
  /\ header = NoHeader
  /\ disk \in { StoredFiles([NoFiles EXCEPT !.input_image = img]) :
                  img \in FloppyImages \cup SmallImages }
  /\ input = FailedStream
  /\ output = NoFile
  /\ args = NoArgs
  /\ result = NoCall
  /\ calls = 0

\* disk_copy create --input_image volume.hfs --disk_copy image.dc42, the
\* container path being writable
DoCreate ==
  /\ calls < MaxSteps
  /\ RunMain(<< "create" >>, FlagsGiven(FALSE), TRUE, TRUE, 0)

\* disk_copy verify --disk_copy image.dc42
DoVerify ==
  /\ calls < MaxSteps
  /\ \E stale \in StaleBytes :
       RunMain(<< "verify" >>, FlagsGiven(FALSE), TRUE, TRUE, stale)

\* disk_copy extract --disk_copy image.dc42 --output_image out.hfs, the
\* output path being writable
DoExtract ==
  /\ calls < MaxSteps
  /\ \E stale \in StaleBytes :
       RunMain(<< "extract" >>, FlagsGiven(FALSE), TRUE, TRUE, stale)

NextEndToEnd ==
  \/ DoCreate
  \/ DoVerify
  \/ DoExtract

SpecEndToEnd == InitEndToEnd /\ [][NextEndToEnd]_vars

---------------------------------------------------------------------------
(* Reference definitions used by the properties *)

\* bit i of a uint32_t
Bit32(x, i) ==
  IF i < 16 THEN (x.lo \div (2 ^ i)) % 2 ELSE (x.hi \div (2 ^ (i - 16))) % 2

\* the accumulator after feeding, one by one with UpdateSum, the nwords
\* big-endian words that follow the first `from` bytes of `bytes`
FeedWords(sum, bytes, from, nwords) ==
  LET feed[a \in [hi : 0..65535, lo : 0..65535] \X Nat \X Nat] ==
        IF a[3] = 0 THEN a[1]
        ELSE IF a[3] = 1
        THEN UpdateSum(a[1], bytes[a[2] + 1] * 256 + bytes[a[2] + 2])
        ELSE LET h == a[3] \div 2
             IN  feed[<< feed[<< a[1], a[2], h >>], a[2] + 2 * h, a[3] - h >>]
  IN  feed[<< sum, from, nwords >>]

\* the bytes a stream can still deliver from position pos
Available(bytes, pos, fail) ==
  IF fail \/ pos > Len(bytes) THEN 0 ELSE Len(bytes) - pos

\* n <= k for a uint32_t n and a small k
LeqSmall32(n, k) == n.hi < k \div Half \/ (n.hi = k \div Half /\ n.lo <= k % Half)

---------------------------------------------------------------------------
(* Properties of the checksum (SpecSum) *)

\* C1: UpdateSum sets the accumulator to the 32-bit rotate-right-by-one of
\* (sum + w) mod 2^32 (bit 0 of the sum becomes bit 31), returns the new
\* value, and Sum() returns it too; from a zero accumulator 0x0001 gives
\* 0x80000000, 0x0000 gives 0 and 0x2469 gives 0x80001234.
C1_UpdateSumRotatesRight ==
  result.op = "UpdateSum" =>
    LET s == Add32(result.sum0, ToU32(result.word))
    IN  /\ \A i \in 0..31 : Bit32(result.ret, i) = Bit32(s, (i + 1) % 32)
        /\ sum_ = result.ret
        /\ Sum(sum_) = result.ret
        /\ result.sum0 = ToU32(0) /\ result.word = 1
             => result.ret = U32(32768, 0)
        /\ result.sum0 = ToU32(0) /\ result.word = 0
             => result.ret = U32(0, 0)
        /\ result.sum0 = ToU32(0) /\ result.word = 9321
             => result.ret = U32(32768, 4660)

C1_Witness ==
  /\ result.op = "UpdateSum"
  /\ result.sum0 = ToU32(0)
  /\ result.word = 9321
  /\ sum_ = U32(32768, 4660)

\* C8: UpdateSumFromBlock fails with a size-parity error whenever the byte
\* count is odd; when the count is even it feeds exactly the count/2
\* consecutive big-endian words of the buffer, in order, and returns OK.
C8_OddBlockRejected ==
  result.op = "UpdateSumFromBlock" =>
    IF Len(result.buffer) % 2 = 1
    THEN ~IsOk(result.status)
    ELSE /\ IsOk(result.status)
         /\ sum_ = FeedWords(result.sum0, result.buffer, 0,
                             Len(result.buffer) \div 2)

\* C9: for every even byte count n, UpdateSumFromFile on a stream that holds
\* at least n bytes from its position leaves the accumulator equal to the
\* result of feeding the n/2 big-endian words one by one with UpdateSum,
\* whatever n is relative to the chunk size; when fewer than n bytes are
\* available it returns an I/O error.
C9_ChunkingNotObservable ==
  (result.op = "UpdateSumFromFile" /\ Mod32(result.byte_count, 2) = 0) =>
    IF LeqSmall32(result.byte_count,
                  Available(input.bytes, result.pos0, result.fail0))
    THEN /\ IsOk(result.status)
         /\ sum_ = FeedWords(result.sum0, input.bytes, result.pos0,
                             result.byte_count.lo \div 2)
    ELSE result.status.code = "OutOfRange"

C9_Witness ==
  /\ result.op = "UpdateSumFromFile"
  /\ result.byte_count = ToU32(2050)
  /\ result.pos0 = 2
  /\ IsOk(result.status)

\* C22: the checksum consumes no byte that was not supplied: after
\* UpdateSumFromBlock on n bytes (n even or odd) and after UpdateSumFromFile
\* the status and the accumulator are the same whatever the memory after
\* the n bytes, and whatever the uninitialised chunk buffer, held.
C22_NoStaleByteConsumed ==
  /\ result.op = "UpdateSumFromBlock" =>
       \A stale \in StaleBytes :
         LET r == UpdateSumFromBlock(result.sum0,
                                     result.buffer \o << stale >>,
                                     Len(result.buffer))
         IN  r.status = result.status /\ r.sum = sum_
  /\ result.op = "UpdateSumFromFile" =>
       \A stale \in StaleBytes :
         LET r == UpdateSumFromFile(result.sum0,
                                    [bytes |-> input.bytes,
                                     pos |-> result.pos0,
                                     fail |-> result.fail0],
                                    result.byte_count, stale)
         IN  r.status = result.status /\ r.sum = sum_

---------------------------------------------------------------------------
(* Properties of the header (SpecHeader) *)

\* the integer d + t + k as three 16-bit limbs, least significant first
ExactSum(d, t, k) ==
  LET l == d.lo + t.lo + k
      h == d.hi + t.hi + (l \div Half)
  IN  << l % Half, h % Half, h \div Half >>

\* a uint32_t as the same three limbs
Wide(v) == << v.lo, v.hi, 0 >>

\* the last kHeaderLength bytes written to the output stream
LastWritten == SubSeq(output, Len(output) - kHeaderLength + 1, Len(output))

\* C2: header round trip: decoding any 84-byte buffer B (name-length bytes
\* >= 0x80 and any disk-format, format-byte and magic values included) and
\* encoding the header with WriteToDisk writes exactly the 84 bytes of B.
C2_HeaderRoundTrip ==
  (result.op = "WriteToDisk" /\ IsOk(result.status) /\ args.kind = "bytes") =>
    /\ Len(output) >= kHeaderLength
    /\ LastWritten = args.bytes

C2_Witness ==
  /\ result.op = "WriteToDisk"
  /\ IsOk(result.status)
  /\ args.kind = "bytes"
  /\ args.bytes[1] = 128
  /\ charSigned
  /\ Len(output) = kHeaderLength

\* C3: Validate rejects an odd data_size, even when name length,
\* disk-format code, format byte and magic field are all well-formed.
C3_OddDataSizeRejected ==
  (result.op = "Validate" /\ header.data_size_.lo % 2 = 1) =>
    ~IsOk(result.status)

\* the rule that Validate must report for a header, "none" when the name
\* length, the disk-format code, the format byte and the magic are all good
FirstViolatedRule ==
  LET nameBad == IF args.kind = "bytes" THEN args.bytes[1] > 63
                 ELSE SizeTGreater(header.name_length_, 63)
      dfBad == IF args.kind = "bytes" THEN args.bytes[81] \notin {0, 1, 2, 3}
               ELSE header.disk_format_ \notin {0, 1, 2, 3}
      fbBad == IF args.kind = "bytes"
               THEN args.bytes[82] \notin {2, 18, 34, 36}
               ELSE header.format_byte_ \notin {2, 18, 34, 36}
      magicBad == IF args.kind = "bytes"
                  THEN << args.bytes[83], args.bytes[84] >> # << 1, 0 >>
                  ELSE header.private_ # 256
  IN  IF nameBad THEN "invalid_name_length"
      ELSE IF dfBad THEN "unknown_disk_format_byte"
      ELSE IF fbBad THEN "unknown_format_byte"
      ELSE IF magicBad THEN "invalid_magic_number"
      ELSE "none"

\* C4: Validate returns a format error whenever the name length exceeds 63,
\* the disk-format code is not in {0,1,2,3}, the format byte is not in
\* {0x02,0x12,0x22,0x24} or the magic differs from 0x0100, whatever the
\* other fields are; when several rules are violated the error is that of
\* the first violated one in the order name length, disk-format code,
\* format byte, magic, data-size parity.
C4_FirstViolatedRuleReported ==
  (result.op = "Validate" /\ FirstViolatedRule # "none") =>
    result.status = InvalidArgumentError(FirstViolatedRule)

C4_Witness ==
  /\ result.op = "Validate"
  /\ args.kind = "bytes"
  /\ args.bytes[1] = 5
  /\ args.bytes[81] = 4
  /\ args.bytes[82] = 150
  /\ << args.bytes[83], args.bytes[84] >> = << 0, 1 >>
  /\ header.data_size_.lo % 2 = 1
  /\ result.status = InvalidArgumentError("unknown_disk_format_byte")

\* C5: for every header that passes Validate, the value returned by Validate
\* and by TotalFileSize equals the integer 84 + data_size + tag_size: the
\* result never wraps around modulo 2^32.  (Stated for the headers that a
\* Validate rejecting odd sizes passes too: data_size even.)
C5_TotalNeverWraps ==
  (/\ \/ result.op = "Validate" /\ IsOk(result.status)
      \/ result.op = "TotalFileSize" /\ IsOk(Validate(header).status)
   /\ header.data_size_.lo % 2 = 0) =>
    Wide(result.value) = ExactSum(header.data_size_, header.tag_size_, 84)

GeometryTable ==
  { << 800, 0, 18 >>, << 1600, 1, 34 >>, << 1440, 2, 34 >>, << 2880, 3, 34 >> }

\* C6: CreateForHFS maps the block count to (disk-format code, format byte)
\* by the table 800->(0,0x12), 1600->(1,0x22), 1440->(2,0x22),
\* 2880->(3,0x22); for every other block count and for every name longer
\* than 63 bytes it returns an argument error and no header; on success
\* data_size is 512 times the block count and the data checksum, tag size
\* and tag checksum are the values passed in.
C6_CreateForHFSTable ==
  result.op = "CreateForHFS" =>
    LET rows == { t \in GeometryTable : ToU32(t[1]) = args.data_block_count }
    IN  IF Len(args.name) > 63 \/ rows = {}
        THEN result.status.code = "InvalidArgument" /\ header = NoHeader
        ELSE \E t \in rows :
               /\ IsOk(result.status)
               /\ header.disk_format_ = t[2]
               /\ header.format_byte_ = t[3]
               /\ header.data_size_ = ToU32(512 * t[1])
               /\ header.header_data_checksum_ = args.data_checksum
               /\ header.tag_size_ = args.tag_byte_count
               /\ header.header_tag_checksum_ = args.tag_checksum

C6_Witness ==
  /\ result.op = "CreateForHFS"
  /\ args.data_block_count = ToU32(1440)
  /\ Len(args.name) = 63
  /\ IsOk(result.status)
  /\ header.disk_format_ = 2
  /\ header.format_byte_ = 34
  /\ header.data_size_ = ToU32(737280)

\* C7: every header returned by CreateForHFS is valid: its magic field is
\* 0x0100 and Validate succeeds on it and returns
\* 84 + 512 * block_count + tag_byte_count, for every tag byte count.
C7_CreatedHeaderValidates ==
  (result.op = "Validate" /\ args.kind = "hfs") =>
    /\ header.private_ = 256
    /\ IsOk(result.status)
    /\ Wide(result.value) =
         ExactSum(ToU32(512 * args.data_block_count.lo),
                  args.tag_byte_count, 84)

\* C23: a header built by CreateForHFS keeps the volume name: for every
\* name of L <= 63 bytes, zero bytes included, its name length is L, its
\* first L name bytes are the name and the other 63 - L name bytes are zero.
C23_CreatedHeaderKeepsName ==
  (result.op = "CreateForHFS" /\ IsOk(result.status)) =>
    /\ header.name_length_ = SizeT(Len(args.name))
    /\ SubSeq(header.name_bytes_, 1, Len(args.name)) = args.name
    /\ \A i \in (Len(args.name) + 1)..kMaxNameLength :
         header.name_bytes_[i] = 0

---------------------------------------------------------------------------
(* Properties of the verify command (SpecCmd) *)

\* the kinds of the I/O and format errors that the verify command returns
VerifyIOAndFormatKinds ==
  { CouldNotOpen.code, OutOfRangeError("").code, InvalidArgumentError("").code }

\* C10: VerifyDataChecksum returns OK exactly when data_size bytes can be
\* read starting at stream offset 84, whatever the stream position was, and
\* their checksum from a zero accumulator equals the declared data
\* checksum; if the bytes cannot all be read it returns an I/O error; if the
\* checksums differ it returns a checksum-mismatch error whose kind differs
\* from the kind of every I/O and format error of the verify command,
\* failure to open the container file included.
C10_VerifyDataChecksumExact ==
  (\/ result.op = "VerifyDataChecksum"
   \/ result.op = "VerifyCommand" /\ header # NoHeader) =>
    LET n == header.data_size_
        readable == LeqSmall32(n, Available(disk, kHeaderLength, result.fail0))
        matches == /\ Mod32(n, 2) = 0
                   /\ FeedWords(ToU32(0), disk, kHeaderLength, n.lo \div 2)
                        = header.header_data_checksum_
    IN  /\ IsOk(result.status) <=> (readable /\ matches)
        /\ ~readable => result.status.code = "OutOfRange"
        /\ (readable /\ ~matches) =>
             /\ result.status.what = "data_checksum_mismatch"
             /\ result.status.code \notin VerifyIOAndFormatKinds

---------------------------------------------------------------------------
(* Properties of the master directory block (SpecHFS) *)

\* the integer (first + 2) + (size / 512) * count as four 16-bit limbs,
\* computed without any intermediate value reaching 2^31
ExactBlockCount(first, size, count) ==
  LET q == Div32Small(size, 512)
      t0 == first + 2
      t1 == (q.lo % 256) * count
      t2 == (q.lo \div 256) * count
      t3 == q.hi * count
      a == t0 + t1 + (t2 % 256) * 256
      b == (t2 \div 256) + t3 + (a \div Half)
  IN  << a % Half, b % Half, b \div Half, 0 >>

\* C12: Valid fails with a format error when the signature is not 0x4244 or
\* the allocation block size is not a multiple of 512; otherwise it returns
\* exactly the integer (first_allocation_block + 2) + (allocation_block_size
\* / 512) * num_allocation_blocks, with no wraparound of the product or the
\* sum.
C12_ValidExactBlockCount ==
  result.op = "Valid" =>
    IF header.signature_ # 16964
       \/ Mod32(header.allocation_block_size_, 512) # 0
    THEN result.status.code = "FailedPrecondition"
    ELSE /\ IsOk(result.status)
         /\ result.value = ExactBlockCount(header.first_allocation_block_,
                                           header.allocation_block_size_,
                                           header.num_allocation_blocks_)

\* C13: VolumeName fails with a precondition error when the name-length
\* byte (byte 36 of the block, as a value 0..255) exceeds 27, and otherwise
\* returns exactly the first name-length bytes of bytes 37..63 of the
\* block, whatever the signature and the allocation block size are.
C13_VolumeNameFromBytes ==
  result.op = "VolumeName" =>
    LET length == input.bytes[kMDBOffset + 37]
    IN  IF length > 27
        THEN result.status.code = "FailedPrecondition"
        ELSE /\ IsOk(result.status)
             /\ result.value = SubSeq(input.bytes, kMDBOffset + 38,
                                      kMDBOffset + 37 + length)

C13_Witness ==
  /\ result.op = "VolumeName"
  /\ IsOk(result.status)
  /\ result.value = << 72, 70, 0 >>
  /\ ~IsOk(Valid(header).status)

---------------------------------------------------------------------------
(* Properties of the big-endian codec (SpecEndian) *)

\* C19: WriteBigEndian2 stores the most significant byte of a 16-bit value
\* first and BigEndian2 of the written bytes returns the value;
\* WriteBigEndian4 stores the four bytes of a 32-bit value most significant
\* first and BigEndian4 of the written bytes returns the value, also with
\* bit 31 set; and writing the value read from a 2- or 4-byte buffer
\* reproduces the buffer.
C19_EndianRoundTrip ==
  /\ (args.kind = "value2" /\ result.op = "WriteBigEndian2") =>
       /\ Len(output) = 2
       /\ \A i \in 1..2 : output[i] \in 0..255
       /\ output[1] * 256 + output[2] = args.value
  /\ (args.kind = "value2" /\ result.op = "BigEndian2") =>
       result.value = args.value
  /\ (args.kind = "value4" /\ result.op = "WriteBigEndian4") =>
       /\ Len(output) = 4
       /\ \A i \in 1..4 : output[i] \in 0..255
       /\ output[1] * 256 + output[2] = args.value.hi
       /\ output[3] * 256 + output[4] = args.value.lo
  /\ (args.kind = "value4" /\ result.op = "BigEndian4") =>
       result.value = args.value
  /\ (args.kind \in {"buffer2", "buffer4"}
        /\ result.op \in {"WriteBigEndian2", "WriteBigEndian4"}) =>
       output = args.bytes

C19_Witness ==
  /\ args.kind = "value4"
  /\ result.op = "BigEndian4"
  /\ args.value.hi >= 32768
  /\ result.value = args.value

---------------------------------------------------------------------------
(* Properties of the runs of the program (SpecMain) *)

\* the last step was a run of the program with the one command c
RanCommand(c) == result.op = "main" /\ args.positional_args = << c >>

\* the files at --disk_copy, --input_image and --output_image.  A run of
\* extract or verify leaves the first as it was, a run of create the
\* second.
TheContainer == Bytes(disk.disk_copy)
TheImage == Bytes(disk.input_image)
TheOutput == Bytes(disk.output_image)

\* the 32-bit big-endian field at offset off of a file
FieldAt(file, off) ==
  U32(file[off + 1] * 256 + file[off + 2], file[off + 3] * 256 + file[off + 4])

\* a file that holds a whole header and the whole data region it declares
HoldsDataRegion(file) ==
  /\ file # NoFile
  /\ Len(file) >= kHeaderLength
  /\ FieldAt(file, 64).hi = 0
  /\ Len(file) >= kHeaderLength + FieldAt(file, 64).lo

\* the data region of such a file
DataRegion(file) ==
  SubSeq(file, kHeaderLength + 1, kHeaderLength + FieldAt(file, 64).lo)

\* the data region of such a file is made of whole 16-bit words whose
\* checksum is the declared one
DataChecksumMatches(file) ==
  /\ FieldAt(file, 64).lo % 2 = 0
  /\ FeedWords(ToU32(0), file, kHeaderLength, FieldAt(file, 64).lo \div 2)
       = FieldAt(file, 72)

\* C11: in a run of extract or verify no byte after the header of the
\* container is read unless the header has been decoded and Validate
\* succeeds on it; and verify on a container whose header is decoded but
\* does not validate fails.
C11_ValidatedBeforeData ==
  (RanCommand("extract") \/ RanCommand("verify")) =>
    /\ result.pos > kHeaderLength =>
         header # NoHeader /\ IsOk(Validate(header).status)
    /\ (RanCommand("verify") /\ header # NoHeader
          /\ ~IsOk(Validate(header).status)) => result.exit # 0

\* C15: a container made from one whose data region is of even length and
\* whose declared checksum matched, by changing one byte of the data region
\* to another value, has a data region whose checksum differs from the
\* declared one; verify on it fails with the checksum-mismatch error and
\* extract without the ignore flag fails.
C15_SingleByteCorruptionDetected ==
  (result.op = "main" /\ TheContainer \in CorruptedContainers) =>
    /\ ~DataChecksumMatches(TheContainer)
    /\ (RanCommand("verify") /\ args.flags.disk_copy # ""
          /\ ~args.flags.ignore_data_checksum) =>
         /\ result.exit # 0
         /\ result.status.what = "data_checksum_mismatch"
    /\ (RanCommand("extract") /\ args.flags.disk_copy # ""
          /\ ~args.flags.ignore_data_checksum) => result.exit # 0

C15_Witness ==
  /\ RanCommand("verify")
  /\ TheContainer \in CorruptedContainers
  /\ result.status.what = "data_checksum_mismatch"
  /\ result.exit = 2

C17_IgnoreFlagOnlyForExtract ==
  /\ ((RanCommand("verify") \/ RanCommand("create"))
        /\ args.flags.ignore_data_checksum) =>
       /\ result.exit # 0
       /\ result.status.code = "InvalidArgument"
       /\ result.opened = {}
       /\ result.pos = 0
       /\ result.written = 0
  /\ (RanCommand("verify") /\ result.exit = 0
        /\ HoldsDataRegion(TheContainer)
        /\ FieldAt(TheContainer, 64).lo % 2 = 0) =>
       DataChecksumMatches(TheContainer)

C17_Witness ==
  /\ RanCommand("verify")
  /\ args.flags.ignore_data_checksum
  /\ HoldsDataRegion(TheContainer)
  /\ DataChecksumMatches(TheContainer)
  /\ IsOk(Validate(DiskCopyHeaderBytes(SubSeq(TheContainer, 1, kHeaderLength), charSigned)).status)
  /\ result.exit = 2

\* the containers that agree with `file` on the header but for tag size and
\* tag checksum and on the data region
TagVariants(file) ==
  { Patch(Patch(SubSeq(file, 1, kHeaderLength + FieldAt(file, 64).lo) \o rest,
                68, tag_size), 76, tag_checksum) :
      tag_size \in { << 0, 0, 0, 0 >>, << 0, 0, 0, 12 >>,
                     << 255, 255, 255, 255 >> },
      tag_checksum \in { << 0, 0, 0, 0 >>, << 18, 52, 86, 120 >> },
      rest \in { << >>, << 1, 2, 3 >>,
                 << 9, 8, 7, 6, 5, 4, 3, 2, 1, 0, 11, 10 >> } }

ImageMDB(file) ==
  HFSMasterDirectoryBlockBytes(SubSeq(file, kMDBOffset + 1, kMDBOffset + kMDBBytes), charSigned)

\* the data of a run of create reaches CreateForHFS: the block is read
\* and valid, the name is given, and the declared blocks are in the image
ReachesCreateForHFS(file) ==
  /\ file # NoFile
  /\ Len(file) >= kMDBOffset + kMDBBytes
  /\ IsOk(Valid(ImageMDB(file)).status)
  /\ IsOk(VolumeName(ImageMDB(file)).status)
  /\ Valid(ImageMDB(file)).value[3] = 0
  /\ Valid(ImageMDB(file)).value[4] = 0
  /\ Valid(ImageMDB(file)).value[2] = 0
  /\ Valid(ImageMDB(file)).value[1] * 512 <= Len(file)

\* C20: when the block count of the volume is not one of 800, 1600, 1440,
\* 2880, a run of create whose output file can be opened ends with the
\* argument error of CreateForHFS as the status of a failed command, and
\* no byte is written to the container path.
C20_CreateReturnsArgumentError ==
  (/\ RanCommand("create")
   /\ args.flags.disk_copy # ""
   /\ ~args.flags.ignore_data_checksum
   /\ args.wopen
   /\ ReachesCreateForHFS(TheImage)
   /\ Valid(ImageMDB(TheImage)).value[1]
        \notin {800, 1600, 1440, 2880}) =>
    /\ result.exit = 2
    /\ result.status.code = "InvalidArgument"
    /\ result.written = 0

---------------------------------------------------------------------------
(* Properties of the round trip (SpecEndToEnd) *)

\* the number of blocks that the valid block of an image declares, as an
\* integer: 0 if it is 65536 or more
DeclaredBlocks(file) ==
  LET mdb == ImageMDB(file)
      n == ExactBlockCount(mdb.first_allocation_block_,
                           mdb.allocation_block_size_,
                           mdb.num_allocation_blocks_)
  IN  IF n[2] = 0 /\ n[3] = 0 /\ n[4] = 0 THEN n[1] ELSE 0

\* a raw volume image whose block is valid, declares one of the four
\* floppy sizes, and which holds the declared blocks
FloppyVolume(file) ==
  /\ file # NoFile
  /\ Len(file) >= kMDBOffset + kMDBBytes
  /\ IsOk(Valid(ImageMDB(file)).status)
  /\ DeclaredBlocks(file) \in {800, 1600, 1440, 2880}
  /\ Len(file) >= 512 * DeclaredBlocks(file)

\* the name length byte of the block of an image is at most 27
NameFits(file) == file[kMDBOffset + 37] <= kMaxVolumeNameLength

\* a run with all paths given, the flag clear and a writable output
PlainRun(c) ==
  /\ RanCommand(c)
  /\ args.flags = FlagsGiven(FALSE)
  /\ args.wopen /\ args.wok

\* the round trip on the image of the file system, if `floppy` says that
\* the image is one the round trip is claimed for
RoundTrip(floppy) ==
  LET image == TheImage
      n == DeclaredBlocks(image)
      container == TheContainer
  IN  /\ (PlainRun("create") /\ floppy) =>
           /\ result.exit = 0
           /\ Len(container) = kHeaderLength + 512 * n
           /\ IsOk(Validate(DiskCopyHeaderBytes(SubSeq(container, 1, kHeaderLength), charSigned)).status)
           /\ FieldAt(container, 64) = U32((512 * n) \div Half, (512 * n) % Half)
           /\ FieldAt(container, 68) = ToU32(0)
           /\ FieldAt(container, 72) = FeedWords(ToU32(0), image, 0, 256 * n)
           /\ SubSeq(container, kHeaderLength + 1, Len(container))
                = SubSeq(image, 1, 512 * n)
      /\ (PlainRun("verify") /\ floppy /\ disk.disk_copy.exists) =>
           result.exit = 0
      /\ (PlainRun("extract") /\ floppy /\ disk.disk_copy.exists) =>
           /\ result.exit = 0
           /\ TheOutput = SubSeq(image, 1, 512 * n)

\* C14 as stated: for every raw volume image whose block is valid and
\* declares N blocks, N one of 800, 1600, 1440, 2880, and which holds at
\* least 512*N bytes, create succeeds and writes a container of 84 + 512*N
\* bytes whose header validates with data_size 512*N, tag size 0 and the
\* checksum of the first 512*N image bytes, followed by those bytes; verify
\* on the container succeeds; extract without the flag succeeds and writes
\* those bytes.
C14_RoundTripAnyName == RoundTrip(FloppyVolume(TheImage))

\* C14, amended: the same for the images whose name length byte is at most
\* 27 as well.
C14_RoundTrip ==
  RoundTrip(FloppyVolume(TheImage) /\ NameFits(TheImage))

C14_Witness ==
  /\ PlainRun("extract")
  /\ calls = 2
  /\ FloppyVolume(TheImage)
  /\ result.exit = 0
  /\ result.written = 409600
  /\ TheOutput = SubSeq(TheImage, 1, 409600)

---------------------------------------------------------------------------
(* Properties of the header read and of the extract command (SpecRead) *)

\* C21: ReadFromDisk, whatever the position of the stream before the call,
\* decodes the bytes at offsets 0..83 of the file and on success leaves the
\* stream at offset 84; it returns an I/O error when the file holds fewer
\* than 84 bytes; and the bytes extract reads after it has decoded and
\* validated the header are the bytes of the file from offset 84 on.
C21_HeaderReadLeavesStreamAtData ==
  /\ result.op = "ReadFromDisk" =>
       /\ (disk = NoFile \/ Len(disk) < kHeaderLength) =>
            result.status.code = "OutOfRange"
       /\ (disk # NoFile /\ Len(disk) >= kHeaderLength /\ ~result.fail0) =>
            /\ IsOk(result.status)
            /\ header = DiskCopyHeaderBytes(SubSeq(disk, 1, kHeaderLength),
                                            charSigned)
            /\ input.pos = kHeaderLength
       /\ IsOk(result.status) => input.pos = kHeaderLength
  /\ (result.op = "ExtractCommand" /\ "volume.hfs" \in result.opened) =>
       /\ output = SubSeq(disk, kHeaderLength + 1, kHeaderLength + Len(output))
       /\ IsOk(result.status) =>
            /\ input.pos = kHeaderLength + header.data_size_.lo
            /\ Len(output) = header.data_size_.lo
       /\ result.status.what = "write_data" =>
            input.pos = kHeaderLength
                          + (IF header.data_size_.lo < kBlockSize
                             THEN header.data_size_.lo ELSE kBlockSize)

\* the header is read from a stream that the caller has moved to offset 10
C21_Witness ==
  /\ result.op = "ReadFromDisk"
  /\ result.pos0 = 10
  /\ ~result.fail0
  /\ IsOk(result.status)
  /\ input.pos = kHeaderLength

\* C24: extract and verify agree: on a container whose header passes
\* Validate (its data_size even or odd), the output being writable, extract
\* without the ignore flag succeeds if and only if VerifyDataChecksum, called
\* as verify calls it on the stream that ReadFromDisk has left, succeeds.
C24_ExtractAgreesWithVerify ==
  (/\ result.op = "ExtractCommand"
   /\ result.wok
   /\ header # NoHeader
   /\ IsOk(Validate(header).status)) =>
    \A stale \in StaleBytes :
      IsOk(result.status)
        <=> IsOk(VerifyDataChecksum(
                   header, ReadFromDisk(OpenStream(disk), charSigned).s,
                   stale).status)

=============================================================================
